---------------------------- MODULE Spec2Model ----------------------------
(***************************************************************************)
(* Model of the Morpheus client's reconciliation engine                    *)
(* (crates/morpheus-client/src/core/reconciliation.rs) together with the   *)
(* policy profile and evidence bundle validators it calls                  *)
(* (types/policy.rs, types/evidence.rs), of the microspace guard           *)
(* (crates/morpheus-client/src/nanoswarm/microspace_guard.rs) and of the   *)
(* healthcare policy validator (crates/governance-healthcare/src/lib.rs)   *)
(* and of the neurorights shell (neurorights-shell/src/lib.rs).            *)
(*                                                                         *)
(* Specifications.  Spec is the engine over profiles and proposals that    *)
(* are well-formed and not; BoundarySpec is the engine over valid profiles *)
(* and the boundary values of the metrics; MicrospaceSpec, PolicySpec and  *)
(* HealthcareSpec call the functions of the microspace guard, of           *)
(* PolicyProfile and of the healthcare validator on their arguments;       *)
(* GuardsSpec is BoundarySpec together with evaluate_swarm_proposal;       *)
(* LifecycleSpec is BoundarySpec together with the profiles new and        *)
(* set_policy_profile refuse; EvidenceSpec builds evidence bundles with    *)
(* new and add_tag, validates them and hands them to the engine;           *)
(* NeurorightsSpec builds a NeurorightsShell and calls its functions.      *)
(*                                                                         *)
(* Numbers.  Every f64 of the source is modelled as an integer count of    *)
(* 1/10000 units (0.25 is 2500, 1.0 is 10000).  Ceilings are whole         *)
(* percents, so that ceiling * 0.85 is exact in these units.  Session      *)
(* lengths are minutes (u32), far from any overflow.  The f64 value NaN    *)
(* is one integer outside every range the model uses; the comparisons and  *)
(* the arithmetic of f64 values go through FLt, FGt, Mul085 and Max, which *)
(* treat it as IEEE 754 does.                                              *)
(*                                                                         *)
(* Options.  Option<T> is a sequence of length 0 (None) or 1 (Some).       *)
(*                                                                         *)
(* Strings.  Strings that are only tested for emptiness are TLA+ strings;  *)
(* constraint names, which are searched for a substring, are sequences of  *)
(* characters.                                                             *)
(*                                                                         *)
(* types/guards.rs, types/audit.rs and types/corridor.rs are not part of   *)
(* the available source: the guards, the audit record and the corridor     *)
(* validator are modelled from the design document (sections 3, 4.2, 4.4   *)
(* and 6) and are marked as such below.                                    *)
(***************************************************************************)
EXTENDS Integers, Sequences, FiniteSets, TLC

VARIABLES
    engine,     \* Option<ReconciliationEngine>: None before a successful new
    version,    \* number of profile snapshots installed by set_policy_profile
    op,         \* the operation last called: "none", "new", "set_policy_profile", "evaluate_evolution"
    arg,        \* Option: the argument of the last new / set_policy_profile or function
                \* call, or the evidence bundle a caller is building
    pc,         \* position of the evaluate_evolution call: "idle", its steps, "done"
    proposal,   \* Option<EvolutionProposal>: the argument of the call in flight or just returned
    snap,       \* Option<PolicyProfile>: the active profile when the call started (history)
    guardLog,   \* the guards evaluated by the call, in order, each with its decision (history)
    used,       \* what the call read from the engine at each step (history)
    result      \* Option<Result>: the value last returned to the caller

vars == <<engine, version, op, arg, pc, proposal, snap, guardLog, used, result>>

----------------------------------------------------------------------------
(* Options *)

None == <<>>

Some(x) == <<x>>

IsSome(o) == Len(o) = 1

Get(o) == o[1]

----------------------------------------------------------------------------
(* Bounds of the model *)

\* successful set_policy_profile calls followed within one behaviour
MaxVersion == 1

\* add_tag calls followed on one evidence bundle
MaxAddTag == 22

----------------------------------------------------------------------------
(* Program constants *)

\* evidence.rs: "Evidence bundle cannot exceed 20 tags"
MaxTags == 20

\* reconciliation.rs: roh_ceiling: 0.3, in 1/10000 units
RohCeiling == 3000

\* policy.rs: bci_ceiling must be in [0.0, 1.0]; 1.0 in 1/10000 units
One == 10000

\* reconciliation.rs: warn threshold ratio 0.85, as a percentage
SoftPercent == 85

----------------------------------------------------------------------------
(* f64 *)

\* f64::NAN, a value a pub f64 field can hold
NaN == -2147483647

IsNaN(x) == x = NaN

\* a < b on f64: false when either side is NaN
FLt(a, b) == ~IsNaN(a) /\ ~IsNaN(b) /\ a < b

\* a <= b on f64: false when either side is NaN
FLe(a, b) == ~IsNaN(a) /\ ~IsNaN(b) /\ a <= b

\* a > b on f64: false when either side is NaN
FGt(a, b) == ~IsNaN(a) /\ ~IsNaN(b) /\ a > b

----------------------------------------------------------------------------
(* Strings as character sequences, and str::contains *)

Forbidden == <<"F","o","r","b","i","d","d","e","n">>

\* str::contains(needle): some window of the haystack equals the needle
Contains(hay, needle) ==
    \E i \in 1..(Len(hay) - Len(needle) + 1) :
        SubSeq(hay, i, i + Len(needle) - 1) = needle

----------------------------------------------------------------------------
(* types/policy.rs *)

\* NeurorightsConstraint names used by the model
NameMentalPrivacy == <<"m","e","n","t","a","l","P","r","i","v","a","c","y">>

NameDreamplexForbidden == <<"d","r","e","a","m","p","l","e","x">> \o Forbidden

NameForbiddenScope == Forbidden \o <<"S","c","o","p","e">>

NameLowerForbidden == <<"f","o","r","b","i","d","d","e","n","S","c","o","p","e">>

Constraint(n, e) == [name |-> n, enforced |-> e]

\* the neurorights_constraints vectors the model draws profiles from
ConstraintLists ==
    { <<>>,
      <<Constraint(NameMentalPrivacy, TRUE), Constraint(NameDreamplexForbidden, FALSE),
        Constraint(NameLowerForbidden, TRUE)>>,
      <<Constraint(NameMentalPrivacy, TRUE), Constraint(NameDreamplexForbidden, TRUE)>>,
      <<Constraint(NameForbiddenScope, TRUE), Constraint(NameDreamplexForbidden, TRUE)>>,
      <<Constraint(NameDreamplexForbidden, FALSE), Constraint(NameForbiddenScope, TRUE)>> }

ProfileNames == {"", "EU_neurorights", "Chile_neurorights"}

Authorities == {"", "EU_AI_Act"}

\* bci_ceiling values: below range, 0.20 (eu_neurorights), 0.25 (default), above range
BciCeilings == {-100, 2000, 2500, 15000}

RightsLists == {<<>>, <<"right_to_consent", "right_to_abort">>}

\* PolicyProfile, the fields the engine and the validator read
Profiles ==
    [ name : ProfileNames,
      authority : Authorities,
      bci_ceiling : BciCeilings,
      neurorights_constraints : ConstraintLists,
      minimum_rights : RightsLists ]

Ok == [ok |-> TRUE, err |-> ""]

Err(m) == [ok |-> FALSE, err |-> m]

\* PolicyProfile::validate: the first failing check decides the message
PolicyValidate(p) ==
    IF p.name = "" THEN Err("Policy profile name cannot be empty")
    ELSE IF p.authority = "" THEN Err("Authority must be specified")
    ELSE IF FLt(p.bci_ceiling, 0) \/ FGt(p.bci_ceiling, One)
         THEN Err("BCI ceiling must be in [0.0, 1.0]")
    ELSE IF Len(p.minimum_rights) = 0 THEN Err("Minimum rights cannot be empty")
    ELSE Ok

----------------------------------------------------------------------------
(* types/evidence.rs *)

EvidenceIds == {"", "ev_001"}

\* number of tags pushed by add_tag
TagCounts == {0, 1, MaxTags + 1}

\* (knowledge_factor, uncertainty): in range, factor above 1.0, uncertainty below 0.0
Factors == { <<9200, 800>>, <<10001, 800>>, <<9200, -1>> }

Bundle(i, t, f) == [id |-> i, tags |-> t, knowledge_factor |-> f[1], uncertainty |-> f[2]]

\* EvidenceBundle, the fields validate reads; tags is the length of the vector.
\* Every id and tag count with in-range factors, and every pair of factors
\* with a non-empty id and one tag.
EvidenceBundles ==
    { Bundle(i, t, <<9200, 800>>) : i \in EvidenceIds, t \in TagCounts }
    \cup { Bundle("ev_001", 1, f) : f \in Factors }

\* validate without the upper bound on the number of tags
EvidenceValidate_NoUpperBound(b) ==
    IF b.id = "" THEN Err("Bundle ID cannot be empty")
    ELSE IF b.tags = 0 THEN Err("Evidence bundle must contain at least one tag")
    ELSE IF FLt(b.knowledge_factor, 0) \/ FGt(b.knowledge_factor, One)
         THEN Err("Knowledge factor must be in [0.0, 1.0]")
    ELSE IF FLt(b.uncertainty, 0) \/ FGt(b.uncertainty, One)
         THEN Err("Uncertainty must be in [0.0, 1.0]")
    ELSE Ok

\* EvidenceBundle::validate
EvidenceValidate(b) ==
    IF b.id = "" THEN Err("Bundle ID cannot be empty")
    ELSE IF b.tags = 0 THEN Err("Evidence bundle must contain at least one tag")
    ELSE IF b.tags > MaxTags THEN Err("Evidence bundle cannot exceed 20 tags")
    ELSE IF FLt(b.knowledge_factor, 0) \/ FGt(b.knowledge_factor, One)
         THEN Err("Knowledge factor must be in [0.0, 1.0]")
    ELSE IF FLt(b.uncertainty, 0) \/ FGt(b.uncertainty, One)
         THEN Err("Uncertainty must be in [0.0, 1.0]")
    ELSE Ok

----------------------------------------------------------------------------
(* types/corridor.rs (design document, section 6) *)

\* EcoCorridorContext, as the list of violated invariants its validate() finds
CorridorContexts == { [violations |-> <<>>], [violations |-> <<"no jurisdiction">>] }

\* EcoCorridorContext::validate: valid when no invariant is violated
CorridorValidate(c) ==
    IF Len(c.violations) = 0 THEN Ok ELSE Err(c.violations[1])

----------------------------------------------------------------------------
(* types/guards.rs (design document, sections 3 and 4.2) *)

AllowFull == [kind |-> "AllowFull", reason |-> ""]

DegradePrecision(r) == [kind |-> "DegradePrecision", reason |-> r]

Forbid(r) == [kind |-> "Forbid", reason |-> r]

IsForbid(d) == d.kind = "Forbid"

\* BciCeilingGuard::new(ceiling, warn_threshold)
BciCeilingGuardNew(c, w) == [ceiling |-> c, warn_threshold |-> w]

\* BciCeilingGuard::evaluate(proposed)
BciGuardEvaluate(g, proposed) ==
    IF FGt(proposed, g.ceiling) THEN Forbid("BCI ceiling exceeded")
    ELSE IF FGt(proposed, g.warn_threshold) THEN DegradePrecision("BCI near ceiling")
    ELSE AllowFull

\* RoHGuard::new(ceiling, current)
RoHGuardNew(c, cur) == [ceiling |-> c, current |-> cur]

\* RoHGuard::evaluate(proposed): only the ceiling is tested
RoHGuardEvaluate(g, proposed) ==
    IF proposed > g.ceiling THEN Forbid("RoH ceiling exceeded") ELSE AllowFull

\* EnvelopeGuard::new(current_duty_cycle, current_session_length)
EnvelopeGuardNew(d, s) == [duty_cycle |-> d, session_length |-> s]

\* EnvelopeGuard::evaluate(proposed_duty_cycle, proposed_session_length)
EnvelopeGuardEvaluate(g, d, s) ==
    IF d > g.duty_cycle \/ s > g.session_length
    THEN Forbid("Envelope may only tighten")
    ELSE AllowFull

----------------------------------------------------------------------------
(* types/audit.rs (design document, sections 3 and 4.4) *)

\* EvolutionAuditRecord::new: an unsealed record with no outcome yet
AuditNew(did, profile_name) ==
    [ subject |-> did,
      policy_profile |-> profile_name,
      outcome |-> None,
      bci_before |-> None, bci_after |-> None,
      roh_before |-> None, roh_after |-> None,
      sealed |-> FALSE ]

\* EvolutionAuditRecord::set_outcome: refused (record unchanged) once sealed
AuditSetOutcome(r, outcome, bci_before, bci_after, roh_before, roh_after) ==
    IF r.sealed THEN r
    ELSE [r EXCEPT !.outcome = Some(outcome),
                   !.bci_before = Some(bci_before), !.bci_after = bci_after,
                   !.roh_before = Some(roh_before), !.roh_after = roh_after]

\* sealing: the one-time transition to immutable; resealing changes nothing
AuditSeal(r) == [r EXCEPT !.sealed = TRUE]

\* EvolutionAuditRecord::respects_monotonicity: every recorded (before, after)
\* pair obeys its direction (unconstrained for BCI* and RoH, whose increase
\* 0.10 -> 0.14 the design document's end-to-end case accepts) and its after
\* value stays within the ceiling of its metric
RespectsMonotonicity(r, bci_ceiling, roh_ceiling) ==
    /\ IsSome(r.bci_after) => FLe(Get(r.bci_after), bci_ceiling)
    /\ IsSome(r.roh_after) => FLe(Get(r.roh_after), roh_ceiling)

----------------------------------------------------------------------------
(* core/reconciliation.rs: EvolutionProposal *)

Proposals ==
    [ did : {"did:x:1"},
      corridor_context : CorridorContexts,
      evidence_bundle : EvidenceBundles,
      current_bci : {1200},
      proposed_bci : {1500, 1800, 2500, 3000},
      current_roh : {1000},
      proposed_roh : {1400, 3000, 3500},
      current_duty_cycle : {4000},
      proposed_duty_cycle : {3500, 5000},
      current_session_length : {90},
      proposed_session_length : {75, 120} ]

----------------------------------------------------------------------------
(* core/reconciliation.rs: results returned to the caller *)

\* Ok(()) of new and set_policy_profile
OkUnit ==
    [kind |-> "Ok", msg |-> "", constraint |-> <<>>, outcome |-> None, record |-> None]

\* Err(MorpheusError::<kind>(msg)); constraint is the name formatted into msg
Rejection(kind, msg, cname) ==
    [kind |-> kind, msg |-> msg, constraint |-> cname, outcome |-> None, record |-> None]

\* Ok((outcome, audit_record))
Approved(outcome, rec) ==
    [kind |-> "Ok", msg |-> "", constraint |-> <<>>,
     outcome |-> Some(outcome), record |-> Some(rec)]

----------------------------------------------------------------------------
(* core/reconciliation.rs: ReconciliationEngine *)

\* f64::max: the other argument when one is NaN
Max(a, b) == IF IsNaN(a) THEN b ELSE IF IsNaN(b) THEN a ELSE IF a >= b THEN a ELSE b

\* x * 0.85 (exact for the whole-percent ceilings of the model); NaN for NaN
Mul085(x) == IF IsNaN(x) THEN NaN ELSE (x * SoftPercent) \div 100

\* new with a looser RoH ceiling (0.4)
EngineOf_LooseRoh(p) ==
    [ policy_profile |-> p,
      bci_guard |-> BciCeilingGuardNew(p.bci_ceiling, Max(Mul085(p.bci_ceiling), 0)),
      roh_ceiling |-> RohCeiling + 1000,
      envelope_guard_enabled |-> TRUE ]

\* the engine built by ReconciliationEngine::new from a valid profile
EngineOf(p) ==
    [ policy_profile |-> p,
      bci_guard |-> BciCeilingGuardNew(p.bci_ceiling, Max(Mul085(p.bci_ceiling), 0)),
      roh_ceiling |-> RohCeiling,
      envelope_guard_enabled |-> TRUE ]

\* no evaluate_evolution call holds a shared borrow of the engine, and the
\* caller has taken the value the last operation returned
NoCallInFlight == pc = "idle"

\* new and set_policy_profile return at once
ReturnsAtOnce ==
    /\ pc' = "returned"
    /\ UNCHANGED <<proposal, snap, guardLog, used>>

\* ReconciliationEngine::new(policy_profile)
New(p) ==
    /\ engine = None
    /\ NoCallInFlight
    /\ op' = "new"
    /\ arg' = Some(p)
    /\ IF PolicyValidate(p).ok
       THEN /\ engine' = Some(EngineOf(p))
            /\ result' = Some(OkUnit)
       ELSE /\ engine' = engine
            /\ result' = Some(Rejection("PolicyError", PolicyValidate(p).err, <<>>))
    /\ ReturnsAtOnce
    /\ UNCHANGED version

\* set_policy_profile installing the profile before validating it
SetPolicyProfile_AssignFirst(p) ==
    /\ IsSome(engine)
    /\ NoCallInFlight
    /\ op' = "set_policy_profile"
    /\ arg' = Some(p)
    /\ PolicyValidate(p).ok => version < MaxVersion
    /\ engine' = Some([Get(engine) EXCEPT
            !.policy_profile = p,
            !.bci_guard = BciCeilingGuardNew(p.bci_ceiling, Mul085(p.bci_ceiling))])
    /\ IF PolicyValidate(p).ok
       THEN /\ version' = version + 1
            /\ result' = Some(OkUnit)
       ELSE /\ version' = version
            /\ result' = Some(Rejection("PolicyError", PolicyValidate(p).err, <<>>))
    /\ ReturnsAtOnce

\* set_policy_profile through a shared reference: it may run while an
\* evaluate_evolution call is between the guard steps and the audit step
SetPolicyProfile_Shared(p) ==
    /\ IsSome(engine)
    /\ pc \in {"roh", "envelope", "constraints", "audit"}
    /\ PolicyValidate(p).ok
    /\ version < MaxVersion
    /\ engine' = Some([Get(engine) EXCEPT
            !.policy_profile = p,
            !.bci_guard = BciCeilingGuardNew(p.bci_ceiling, Mul085(p.bci_ceiling))])
    /\ version' = version + 1
    /\ UNCHANGED <<op, arg, pc, proposal, snap, guardLog, used, result>>

\* set_policy_profile rebuilding the RoH ceiling from the new profile as well
SetPolicyProfile_RohFromProfile(p) ==
    /\ IsSome(engine)
    /\ NoCallInFlight
    /\ op' = "set_policy_profile"
    /\ arg' = Some(p)
    /\ IF PolicyValidate(p).ok
       THEN /\ version < MaxVersion
            /\ engine' = Some([Get(engine) EXCEPT
                    !.policy_profile = p,
                    !.bci_guard = BciCeilingGuardNew(p.bci_ceiling, Mul085(p.bci_ceiling)),
                    !.roh_ceiling = Max(p.bci_ceiling, RohCeiling)])
            /\ version' = version + 1
            /\ result' = Some(OkUnit)
       ELSE /\ engine' = engine
            /\ version' = version
            /\ result' = Some(Rejection("PolicyError", PolicyValidate(p).err, <<>>))
    /\ ReturnsAtOnce

\* ReconciliationEngine::set_policy_profile(&mut self, profile): the exclusive
\* borrow excludes every evaluate_evolution call in flight
SetPolicyProfile(p) ==
    /\ IsSome(engine)
    /\ NoCallInFlight
    /\ op' = "set_policy_profile"
    /\ arg' = Some(p)
    /\ IF PolicyValidate(p).ok
       THEN /\ version < MaxVersion
            /\ engine' = Some([Get(engine) EXCEPT
                    !.policy_profile = p,
                    !.bci_guard = BciCeilingGuardNew(p.bci_ceiling, Mul085(p.bci_ceiling))])
            /\ version' = version + 1
            /\ result' = Some(OkUnit)
       ELSE /\ engine' = engine
            /\ version' = version
            /\ result' = Some(Rejection("PolicyError", PolicyValidate(p).err, <<>>))
    /\ ReturnsAtOnce

----------------------------------------------------------------------------
(* core/reconciliation.rs: ReconciliationEngine::evaluate_evolution(&self) *)

\* the call returns r
Return(r) ==
    /\ pc' = "done"
    /\ result' = Some(r)

\* the call goes on to step s
Goto(s) ==
    /\ pc' = s
    /\ result' = result

\* a caller passes a proposal to an engine it holds
Start(pr) ==
    /\ IsSome(engine)
    /\ NoCallInFlight
    /\ op' = "evaluate_evolution"
    /\ arg' = None
    /\ pc' = "corridor"
    /\ proposal' = Some(pr)
    /\ snap' = Some([profile |-> Get(engine).policy_profile, version |-> version])
    /\ guardLog' = <<>>
    /\ used' = [ceiling |-> None, constraints |-> None]
    /\ result' = None
    /\ UNCHANGED <<engine, version>>

\* Step 1: validate corridor context
ValidateCorridor ==
    /\ pc = "corridor"
    /\ LET v == CorridorValidate(Get(proposal).corridor_context) IN
         IF v.ok THEN Goto("evidence")
         ELSE Return(Rejection("CorridorViolation", v.err, <<>>))
    /\ UNCHANGED <<engine, version, op, arg, proposal, snap, guardLog, used>>

\* Step 2 with the validator's result dropped
ValidateEvidence_Ignored ==
    /\ pc = "evidence"
    /\ Goto("bci")
    /\ UNCHANGED <<engine, version, op, arg, proposal, snap, guardLog, used>>

\* Step 2: validate evidence bundle
ValidateEvidence ==
    /\ pc = "evidence"
    /\ LET v == EvidenceValidate(Get(proposal).evidence_bundle) IN
         IF v.ok THEN Goto("bci")
         ELSE Return(Rejection("EvidenceInvalid", v.err, <<>>))
    /\ UNCHANGED <<engine, version, op, arg, proposal, snap, guardLog, used>>

\* Step 3: run BCI ceiling guard
EvalBci ==
    /\ pc = "bci"
    /\ LET d == BciGuardEvaluate(Get(engine).bci_guard, Get(proposal).proposed_bci) IN
         /\ guardLog' = Append(guardLog, [guard |-> "bci", decision |-> d])
         /\ IF IsForbid(d)
            THEN Return(Rejection("GuardRejection", "BCI guard rejected", <<>>))
            ELSE Goto("roh")
    /\ used' = [used EXCEPT !.ceiling = Some(Get(engine).bci_guard.ceiling)]
    /\ UNCHANGED <<engine, version, op, arg, proposal, snap>>

\* the RoH step lowering the engine's RoH ceiling to the value it let pass
EvalRoh_Ratchet ==
    /\ pc = "roh"
    /\ LET roh_guard == RoHGuardNew(Get(engine).roh_ceiling, Get(proposal).current_roh)
           d == RoHGuardEvaluate(roh_guard, Get(proposal).proposed_roh) IN
         /\ guardLog' = Append(guardLog, [guard |-> "roh", decision |-> d])
         /\ IF IsForbid(d)
            THEN /\ Return(Rejection("MonotonicityViolation", "RoH guard rejected", <<>>))
                 /\ engine' = engine
            ELSE /\ Goto("envelope")
                 /\ engine' = Some([Get(engine) EXCEPT
                                      !.roh_ceiling = Get(proposal).proposed_roh])
    /\ UNCHANGED <<version, op, arg, proposal, snap, used>>

\* the RoH step going on to the envelope guard after a Forbid
EvalRoh_NoReturn ==
    /\ pc = "roh"
    /\ LET roh_guard == RoHGuardNew(Get(engine).roh_ceiling, Get(proposal).current_roh)
           d == RoHGuardEvaluate(roh_guard, Get(proposal).proposed_roh) IN
         guardLog' = Append(guardLog, [guard |-> "roh", decision |-> d])
    /\ Goto("envelope")
    /\ UNCHANGED <<engine, version, op, arg, proposal, snap, used>>

\* Step 4: run RoH monotonicity guard
EvalRoh ==
    /\ pc = "roh"
    /\ LET roh_guard == RoHGuardNew(Get(engine).roh_ceiling, Get(proposal).current_roh)
           d == RoHGuardEvaluate(roh_guard, Get(proposal).proposed_roh) IN
         /\ guardLog' = Append(guardLog, [guard |-> "roh", decision |-> d])
         /\ IF IsForbid(d)
            THEN Return(Rejection("MonotonicityViolation", "RoH guard rejected", <<>>))
            ELSE Goto("envelope")
    /\ UNCHANGED <<engine, version, op, arg, proposal, snap, used>>

\* Step 5 with the guard built from the proposed values and asked about the
\* current ones
EvalEnvelope_Swapped ==
    /\ pc = "envelope"
    /\ LET g == EnvelopeGuardNew(Get(proposal).proposed_duty_cycle,
                                 Get(proposal).proposed_session_length)
           d == EnvelopeGuardEvaluate(g, Get(proposal).current_duty_cycle,
                                         Get(proposal).current_session_length) IN
         /\ guardLog' = Append(guardLog, [guard |-> "envelope", decision |-> d])
         /\ IF IsForbid(d)
            THEN Return(Rejection("GuardRejection", "Envelope guard rejected", <<>>))
            ELSE Goto("constraints")
    /\ UNCHANGED <<engine, version, op, arg, proposal, snap, used>>

\* Step 5: run envelope-tightening guard, when enabled
EvalEnvelope ==
    /\ pc = "envelope"
    /\ IF Get(engine).envelope_guard_enabled
       THEN LET g == EnvelopeGuardNew(Get(proposal).current_duty_cycle,
                                      Get(proposal).current_session_length)
                d == EnvelopeGuardEvaluate(g, Get(proposal).proposed_duty_cycle,
                                              Get(proposal).proposed_session_length) IN
              /\ guardLog' = Append(guardLog, [guard |-> "envelope", decision |-> d])
              /\ IF IsForbid(d)
                 THEN Return(Rejection("GuardRejection", "Envelope guard rejected", <<>>))
                 ELSE Goto("constraints")
       ELSE /\ guardLog' = guardLog
            /\ Goto("constraints")
    /\ UNCHANGED <<engine, version, op, arg, proposal, snap, used>>

\* the test of Step 6 without the enforced flag
IsProhibitive_IgnoreEnforced(c) == Contains(c.name, Forbidden)

\* the test of Step 6 on one constraint
IsProhibitive(c) == c.enforced /\ Contains(c.name, Forbidden)

\* the index of the first constraint the loop of Step 6 rejects on, or 0
FirstProhibitive(cs) ==
    IF \E i \in 1..Len(cs) : IsProhibitive(cs[i])
    THEN CHOOSE i \in 1..Len(cs) :
            /\ IsProhibitive(cs[i])
            /\ \A j \in 1..(i - 1) : ~IsProhibitive(cs[j])
    ELSE 0

\* Step 6: check policy profile neurorights constraints
CheckConstraints ==
    /\ pc = "constraints"
    /\ LET cs == Get(engine).policy_profile.neurorights_constraints
           i == FirstProhibitive(cs) IN
         /\ used' = [used EXCEPT !.constraints = Some(cs)]
         /\ IF i > 0
            THEN Return(Rejection("PolicyError", "Policy constraint violated", cs[i].name))
            ELSE Goto("audit")
    /\ UNCHANGED <<engine, version, op, arg, proposal, snap, guardLog>>

\* Step 7: create audit record, set its outcome, verify monotonicity, return it
CreateAudit ==
    /\ pc = "audit"
    /\ LET pr == Get(proposal)
           rec == AuditSetOutcome(AuditNew(pr.did, Get(engine).policy_profile.name),
                                  "Allowed",
                                  pr.current_bci, Some(pr.proposed_bci),
                                  pr.current_roh, Some(pr.proposed_roh)) IN
         IF ~RespectsMonotonicity(rec, Get(engine).bci_guard.ceiling, Get(engine).roh_ceiling)
         THEN Return(Rejection("MonotonicityViolation",
                               "Audit record violates monotonicity constraint", <<>>))
         ELSE Return(Approved("Allowed", rec))
    /\ UNCHANGED <<engine, version, op, arg, proposal, snap, guardLog, used>>

----------------------------------------------------------------------------
(* the caller, holding the record evaluate_evolution returned *)

HoldsRecord ==
    /\ pc \in {"done", "held"}
    /\ IsSome(result)
    /\ IsSome(Get(result).record)

\* the caller calls set_outcome on the returned record
CallerSetOutcome ==
    /\ HoldsRecord
    /\ LET pr == Get(proposal)
           rec == Get(Get(result).record) IN
         result' = Some([Get(result) EXCEPT !.record =
                        Some(AuditSetOutcome(rec, "Rejected",
                                             pr.current_bci, None,
                                             pr.current_roh, None))])
    /\ pc' = "held"
    /\ UNCHANGED <<engine, version, op, arg, proposal, snap, guardLog, used>>

\* the caller seals the returned record
CallerSeal ==
    /\ HoldsRecord
    /\ result' = Some([Get(result) EXCEPT !.record = Some(AuditSeal(Get(Get(result).record)))])
    /\ pc' = "held"
    /\ UNCHANGED <<engine, version, op, arg, proposal, snap, guardLog, used>>

\* the caller drops the value the last operation returned
Finish ==
    /\ pc \in {"done", "held", "returned"}
    /\ pc' = "idle"
    /\ op' = "none"
    /\ arg' = None
    /\ proposal' = None
    /\ snap' = None
    /\ guardLog' = <<>>
    /\ used' = [ceiling |-> None, constraints |-> None]
    /\ result' = None
    /\ UNCHANGED <<engine, version>>

----------------------------------------------------------------------------
(* The specification *)

Init ==
    /\ engine = None
    /\ version = 0
    /\ op = "none"
    /\ arg = None
    /\ pc = "idle"
    /\ proposal = None
    /\ snap = None
    /\ guardLog = <<>>
    /\ used = [ceiling |-> None, constraints |-> None]
    /\ result = None

Next ==
    \/ \E p \in Profiles : New(p)
    \/ \E p \in Profiles : SetPolicyProfile(p)
    \/ \E pr \in Proposals : Start(pr)
    \/ ValidateCorridor
    \/ ValidateEvidence
    \/ EvalBci
    \/ EvalRoh
    \/ EvalEnvelope
    \/ CheckConstraints
    \/ CreateAudit
    \/ CallerSetOutcome
    \/ CallerSeal
    \/ Finish

Spec == Init /\ [][Next]_vars

----------------------------------------------------------------------------
(* Vocabulary of the properties *)

\* an evaluate_evolution call has returned and its result is still as returned
Returned == pc = "done"

\* a call has started against an engine (its proposal and engine are defined)
InCall == pc \in {"corridor", "evidence", "bci", "roh", "envelope", "constraints", "audit", "done"}

ContextValid == Len(Get(proposal).corridor_context.violations) = 0

EvidenceValid ==
    LET b == Get(proposal).evidence_bundle IN
      /\ b.id # ""
      /\ 1 <= b.tags /\ b.tags <= MaxTags
      /\ 0 <= b.knowledge_factor /\ b.knowledge_factor <= One
      /\ 0 <= b.uncertainty /\ b.uncertainty <= One

GuardOrder == <<"bci", "roh", "envelope">>

\* the message of the rejection attributed to guard g
RejectedBy(g) ==
    CASE g = "bci" -> "BCI guard rejected"
      [] g = "roh" -> "RoH guard rejected"
      [] g = "envelope" -> "Envelope guard rejected"

\* whether guard g forbids the proposal of the call, by the definitions of
\* section 4.2 of the design document
Forbids(g) ==
    LET pr == Get(proposal) IN
    CASE g = "bci" -> pr.proposed_bci > Get(snap).profile.bci_ceiling
      [] g = "roh" -> pr.proposed_roh > RohCeiling
      [] g = "envelope" -> \/ pr.proposed_duty_cycle > pr.current_duty_cycle
                           \/ pr.proposed_session_length > pr.current_session_length

AllGuardsPassed ==
    /\ Len(guardLog) = Len(GuardOrder)
    /\ \A i \in 1..Len(guardLog) : ~IsForbid(guardLog[i].decision)

NoRecordReturned ==
    /\ Get(result).kind # "Ok"
    /\ Get(result).outcome = None
    /\ Get(result).record = None

----------------------------------------------------------------------------
(* C1 *)

\* C1: the guards run in the order BCI, RoH, envelope; no guard runs after a
\* Forbid; a call in which a guard forbids returns a rejection attributed to
\* the first forbidding guard of that order, having run no later guard, and
\* returns no audit record.
C1_ShortCircuit ==
    /\ Len(guardLog) <= Len(GuardOrder)
    /\ \A i \in 1..Len(guardLog) : guardLog[i].guard = GuardOrder[i]
    /\ \A i \in 1..(Len(guardLog) - 1) : ~IsForbid(guardLog[i].decision)
    /\ (guardLog # <<>> /\ IsForbid(guardLog[Len(guardLog)].decision)) =>
          /\ Returned
          /\ NoRecordReturned
          /\ Get(result).msg = RejectedBy(guardLog[Len(guardLog)].guard)
    /\ (Returned /\ ContextValid /\ EvidenceValid) =>
          \A k \in 1..Len(GuardOrder) :
             (Forbids(GuardOrder[k]) /\ \A j \in 1..(k - 1) : ~Forbids(GuardOrder[j])) =>
                /\ Len(guardLog) = k
                /\ IsForbid(guardLog[k].decision)
                /\ Get(result).msg = RejectedBy(GuardOrder[k])
                /\ NoRecordReturned

\* the RoH guard forbade a proposal that the envelope guard would forbid too,
\* and the envelope guard was not run
C1_Witness ==
    /\ Returned
    /\ Len(guardLog) = 2
    /\ IsForbid(guardLog[2].decision)
    /\ Forbids("envelope")

----------------------------------------------------------------------------
(* C2 *)

\* C2: no guard is evaluated unless the corridor context and the evidence
\* bundle are both valid; a call with an invalid corridor context returns
\* CorridorViolation, a call with a valid context and an invalid bundle returns
\* EvidenceInvalid, and neither returns an audit record, whatever the metrics.
C2_ValidationFirst ==
    /\ (InCall /\ guardLog # <<>>) => (ContextValid /\ EvidenceValid)
    /\ (InCall /\ pc \in {"bci", "roh", "envelope", "constraints", "audit"}) =>
          (ContextValid /\ EvidenceValid)
    /\ (Returned /\ ~ContextValid) =>
          /\ Get(result).kind = "CorridorViolation"
          /\ guardLog = <<>>
          /\ NoRecordReturned
    /\ (Returned /\ ContextValid /\ ~EvidenceValid) =>
          /\ Get(result).kind = "EvidenceInvalid"
          /\ guardLog = <<>>
          /\ NoRecordReturned

\* an invalid bundle stopped a proposal that every guard would have forbidden
C2_Witness ==
    /\ Returned
    /\ Get(result).kind = "EvidenceInvalid"
    /\ Forbids("bci") /\ Forbids("roh") /\ Forbids("envelope")

----------------------------------------------------------------------------
(* C3 *)

\* the proposal of the call has a valid context and bundle, a proposed BCI*
\* not above the ceiling of the active profile and a tightening envelope
C3_Scenario ==
    /\ Returned
    /\ ContextValid /\ EvidenceValid
    /\ ~Forbids("bci")
    /\ ~Forbids("envelope")

\* the call returned Allowed with a record that passes its monotonicity check
C3_Allowed ==
    /\ Get(result).kind = "Ok"
    /\ Get(result).outcome = Some("Allowed")
    /\ IsSome(Get(result).record)
    /\ RespectsMonotonicity(Get(Get(result).record),
                            Get(snap).profile.bci_ceiling, RohCeiling)

\* no enforced constraint of the profile has a name containing "Forbidden"
NoProhibitiveConstraint(profile) ==
    \A i \in 1..Len(profile.neurorights_constraints) :
       LET c == profile.neurorights_constraints[i] IN
         ~(c.enforced /\ Contains(c.name, Forbidden))

\* C3 as stated: in the scenario, proposed_roh <= 0.30 is Allowed with a
\* record whose monotonicity check is true, and proposed_roh > 0.30 is
\* rejected with no record.
C3_AsStated ==
    C3_Scenario =>
       IF Get(proposal).proposed_roh <= RohCeiling
       THEN C3_Allowed
       ELSE NoRecordReturned

\* C3 (amended): as stated, the Allowed half holding when no enforced
\* constraint of the active profile is prohibitive.
C3_EndToEndRoh ==
    C3_Scenario =>
       IF Get(proposal).proposed_roh <= RohCeiling
       THEN NoProhibitiveConstraint(Get(snap).profile) => C3_Allowed
       ELSE NoRecordReturned

\* a proposal raising RoH from 0.10 to 0.14 was allowed
C3_Witness ==
    /\ C3_Scenario
    /\ Get(proposal).current_roh = 1000
    /\ Get(proposal).proposed_roh = 1400
    /\ C3_Allowed

----------------------------------------------------------------------------
(* C4 *)

\* C4: the record a successful call returns is sealed, and no later operation
\* on it changes its contents.
C4_ReturnedRecordSealed ==
    [][ HoldsRecord =>
          /\ Get(Get(result).record).sealed
          /\ HoldsRecord' => Get(result').record = Get(result).record ]_vars

----------------------------------------------------------------------------
(* C5 *)

\* C5: new and set_policy_profile called with a profile that fails validation
\* return PolicyError and leave the engine as it was (absent, for new).
C5_InvalidProfileRejected ==
    [][ (pc = "idle" /\ pc' = "returned" /\ ~PolicyValidate(Get(arg')).ok) =>
          /\ op' \in {"new", "set_policy_profile"}
          /\ Get(result').kind = "PolicyError"
          /\ engine' = engine
          /\ (op' = "new" => engine' = None) ]_vars

\* set_policy_profile refused a profile on an engine that holds a valid one
C5_Witness ==
    /\ pc = "returned"
    /\ op = "set_policy_profile"
    /\ Get(result).kind = "PolicyError"
    /\ IsSome(engine)
    /\ version > 0
    /\ Get(arg).bci_ceiling > One

----------------------------------------------------------------------------
(* C6 *)

\* C6: everything a call reads from the engine comes from the profile that
\* was active when the call started: the ceiling of the BCI guard, the
\* constraint list and the profile name written into the audit record.
C6_OneSnapshot ==
    InCall =>
       LET s == Get(snap).profile IN
         /\ IsSome(used.ceiling) => Get(used.ceiling) = s.bci_ceiling
         /\ IsSome(used.constraints) => Get(used.constraints) = s.neurorights_constraints
         /\ (Returned /\ IsSome(Get(result).record)) =>
               Get(Get(result).record).policy_profile = s.name

\* a call made after a replacement of the profile returned a record
C6_Witness ==
    /\ Returned
    /\ IsSome(Get(result).record)
    /\ Get(snap).version > 0
    /\ Get(snap).profile.name = "Chile_neurorights"
    /\ IsSome(used.ceiling) /\ IsSome(used.constraints)

----------------------------------------------------------------------------
(* C7 *)

\* C7: no step of evaluate_evolution changes the engine, and a call that has
\* returned does not run again by itself.
C7_EvaluateLeavesEngine ==
    [][ /\ (op' = "evaluate_evolution" \/ InCall) => (engine' = engine /\ version' = version)
        /\ pc \in {"done", "held"} => (pc' \in {"done", "held", "idle"} /\ guardLog' \in {guardLog, <<>>})
      ]_vars

\* a call was rejected by a guard, the engine being the one new built
C7_Witness ==
    /\ Returned
    /\ Get(result).kind = "GuardRejection"
    /\ engine = Some(EngineOf(Get(snap).profile))

----------------------------------------------------------------------------
(* C8 *)

\* the first soft decision of the log, or AllowFull
CombinedDecision ==
    IF \E i \in 1..Len(guardLog) : guardLog[i].decision.kind # "AllowFull"
    THEN guardLog[CHOOSE i \in 1..Len(guardLog) :
                     /\ guardLog[i].decision.kind # "AllowFull"
                     /\ \A j \in 1..(i - 1) : guardLog[j].decision.kind = "AllowFull"].decision.kind
    ELSE "AllowFull"

\* C8: the outcome returned, and stored in the record, is Allowed only when
\* every guard returned AllowFull, and otherwise the soft decision observed.
C8_CombinedOutcome ==
    (Returned /\ Get(result).kind = "Ok") =>
       LET expected == IF CombinedDecision = "AllowFull" THEN "Allowed" ELSE CombinedDecision IN
         /\ Get(result).outcome = Some(expected)
         /\ Get(Get(result).record).outcome = Some(expected)

----------------------------------------------------------------------------
(* C9 *)

\* C9: a call in which a guard forbids returns GuardRejection, and
\* MonotonicityViolation is returned only when every guard passed and the
\* self-check of the audit record failed.
C9_ErrorKindsApart ==
    Returned =>
       /\ (guardLog # <<>> /\ IsForbid(guardLog[Len(guardLog)].decision)) =>
             Get(result).kind = "GuardRejection"
       /\ Get(result).kind = "MonotonicityViolation" =>
             /\ AllGuardsPassed
             /\ Get(result).msg = "Audit record violates monotonicity constraint"

----------------------------------------------------------------------------
(* C10 *)

\* C10: when all guards have passed, the call is rejected with PolicyError
\* naming the first enforced constraint whose name contains "Forbidden", and
\* returns no record; with no such constraint it is not rejected for a
\* constraint.
C10_ProhibitiveConstraint ==
    (Returned /\ AllGuardsPassed) =>
       LET cs == Get(snap).profile.neurorights_constraints
           hits == {i \in 1..Len(cs) : cs[i].enforced /\ Contains(cs[i].name, Forbidden)} IN
         IF hits # {}
         THEN /\ Get(result).kind = "PolicyError"
              /\ Get(result).msg = "Policy constraint violated"
              /\ \E i \in hits : /\ Get(result).constraint = cs[i].name
                                 /\ \A j \in hits : i <= j
              /\ NoRecordReturned
         ELSE /\ Get(result).kind # "PolicyError"
              /\ Get(result).constraint = <<>>

\* the call was rejected for the second constraint of the profile, the first
\* one being prohibitive by name but not enforced
C10_Witness ==
    /\ Returned
    /\ AllGuardsPassed
    /\ Get(result).kind = "PolicyError"
    /\ Get(result).constraint = NameForbiddenScope
    /\ Get(snap).profile.neurorights_constraints[1] = Constraint(NameDreamplexForbidden, FALSE)

----------------------------------------------------------------------------
(* types/evidence.rs: building a bundle *)

\* f64::clamp(lo, hi): NaN stays NaN
Clamp(x, lo, hi) == IF IsNaN(x) THEN NaN ELSE IF x < lo THEN lo ELSE IF x > hi THEN hi ELSE x

\* EvidenceBundle::new(id, knowledge_factor, uncertainty): no tag yet
EvidenceBundleNew(id, knowledge_factor, uncertainty) ==
    Bundle(id, 0, <<Clamp(knowledge_factor, 0, One), Clamp(uncertainty, 0, One)>>)

\* EvidenceBundle::add_tag: pushes, whatever the number of tags
AddTag(b) == [b EXCEPT !.tags = @ + 1]

----------------------------------------------------------------------------
(* The engine over the boundary values of its metrics *)

\* minimum_rights of PolicyProfile::new
DefaultRights ==
    <<"right_to_consent", "right_to_abort", "right_to_identity", "right_to_privacy">>

\* bci_ceiling values that pass PolicyProfile::validate: 0.0, 0.20
\* (eu_neurorights), 0.25 (PolicyProfile::new), 1.0 and NaN
BoundaryCeilings == {NaN, 0, 2000, 2500, One}

\* PolicyProfile::new("test", "1.0", "test"), its bci_ceiling then assigned
BoundaryProfiles ==
    [ name : {"test"},
      authority : {"test"},
      bci_ceiling : BoundaryCeilings,
      neurorights_constraints : {<<>>},
      minimum_rights : {DefaultRights} ]

\* proposed_bci values on both sides of ceiling and of ceiling * 0.85, for
\* each ceiling of BoundaryCeilings
BoundaryBci ==
    {0, 1, 1500, 1700, 1701, 1800, 2000, 2001, 2125, 2126, 2500, 2501,
     8500, 8501, One, One + 1}

\* the evidence bundle of test_evolution_proposal_evaluation, as built and
\* with one tag added
TestEvidence == EvidenceBundleNew("ev1", 9000, 1000)

\* the proposal of test_evolution_proposal_evaluation
TestProposal ==
    [ did |-> "did:bostrom:test",
      corridor_context |-> [violations |-> <<>>],
      evidence_bundle |-> TestEvidence,
      current_bci |-> 1000, proposed_bci |-> 1500,
      current_roh |-> 1000, proposed_roh |-> 1200,
      current_duty_cycle |-> 5000, proposed_duty_cycle |-> 4000,
      current_session_length |-> 60, proposed_session_length |-> 45 ]

\* proposals with a valid corridor context and metrics below, at and above
\* what each guard compares them with
BoundaryProposals ==
    [ did : {"did:x:1"},
      corridor_context : {[violations |-> <<>>]},
      evidence_bundle : {AddTag(TestEvidence)},
      current_bci : {1000},
      proposed_bci : BoundaryBci,
      current_roh : {1000},
      proposed_roh : {1200, 3500},
      current_duty_cycle : {4000},
      proposed_duty_cycle : {3500, 4000, 5000},
      current_session_length : {90},
      proposed_session_length : {75, 90, 120} ]
    \cup {TestProposal, [TestProposal EXCEPT !.evidence_bundle = AddTag(TestEvidence)]}

BoundaryNext ==
    \/ \E p \in BoundaryProfiles : New(p)
    \/ \E p \in BoundaryProfiles : SetPolicyProfile(p)
    \/ \E pr \in BoundaryProposals : Start(pr)
    \/ ValidateCorridor
    \/ ValidateEvidence
    \/ EvalBci
    \/ EvalRoh
    \/ EvalEnvelope
    \/ CheckConstraints
    \/ CreateAudit
    \/ CallerSetOutcome
    \/ CallerSeal
    \/ Finish

BoundarySpec == Init /\ [][BoundaryNext]_vars

----------------------------------------------------------------------------
(* C11 *)

\* the BCI guard has decided on the proposal of the call
BciDecided == InCall /\ guardLog # <<>>

\* the decision the thresholds c and 0.85 x c give for a proposed value,
\* with the comparisons of f64
CeilingDecision(c, proposed) ==
    IF FGt(proposed, c) THEN "Forbid"
    ELSE IF ~IsNaN(c) /\ SoftPercent * c < 100 * proposed /\ proposed <= c
         THEN "DegradePrecision"
    ELSE "AllowFull"

\* C11: the BCI guard of an engine whose active profile has ceiling c returns
\* Forbid exactly when proposed > c, DegradePrecision exactly when
\* 0.85 x c < proposed <= c, and AllowFull otherwise.
C11_CeilingThresholds ==
    BciDecided =>
       guardLog[1].decision.kind =
          CeilingDecision(Get(snap).profile.bci_ceiling, Get(proposal).proposed_bci)

\* the same for the ceilings that are numbers
C11_NumberCeilings ==
    (BciDecided /\ ~IsNaN(Get(snap).profile.bci_ceiling)) =>
       guardLog[1].decision.kind =
          CeilingDecision(Get(snap).profile.bci_ceiling, Get(proposal).proposed_bci)

\* a proposed value equal to the ceiling 0.20 was not forbidden
C11_AtCeiling ==
    /\ BciDecided
    /\ Get(snap).profile.bci_ceiling = 2000
    /\ Get(proposal).proposed_bci = 2000
    /\ guardLog[1].decision.kind = "DegradePrecision"

----------------------------------------------------------------------------
(* C12 *)

\* the two guards before the envelope guard have let the proposal pass
ReachedEnvelope ==
    /\ Len(guardLog) >= 2
    /\ ~IsForbid(guardLog[1].decision)
    /\ ~IsForbid(guardLog[2].decision)

\* C12: the envelope guard, built from the current duty cycle and session
\* length of the proposal, forbids exactly when the proposed duty cycle or the
\* proposed session length exceeds the current one and allows in full
\* otherwise; the envelope step is enabled in every engine, and a call that
\* reaches it with an expanding proposal returns the envelope rejection and no
\* record, while a tightening or holding proposal is not rejected by it.
C12_EnvelopeTightens ==
    /\ IsSome(engine) => Get(engine).envelope_guard_enabled
    /\ (InCall /\ Len(guardLog) = 3) =>
          /\ guardLog[3].guard = "envelope"
          /\ guardLog[3].decision.kind =
                IF Forbids("envelope") THEN "Forbid" ELSE "AllowFull"
    /\ (Returned /\ ReachedEnvelope) =>
          /\ Len(guardLog) = 3
          /\ IF Forbids("envelope")
             THEN /\ Get(result).kind = "GuardRejection"
                  /\ Get(result).msg = RejectedBy("envelope")
                  /\ NoRecordReturned
             ELSE Get(result).msg # RejectedBy("envelope")

\* a proposal holding both the duty cycle and the session length was allowed
\* in full by the envelope guard
C12_Witness ==
    /\ Returned
    /\ Len(guardLog) = 3
    /\ Get(proposal).proposed_duty_cycle = Get(proposal).current_duty_cycle
    /\ Get(proposal).proposed_session_length = Get(proposal).current_session_length
    /\ guardLog[3].decision = AllowFull
    /\ Get(result).kind = "Ok"

\* a proposal shrinking the session length and raising the duty cycle from
\* 0.40 to 0.50 was rejected by the envelope guard
C12_Expanding ==
    /\ Returned
    /\ Get(proposal).current_duty_cycle = 4000
    /\ Get(proposal).proposed_duty_cycle = 5000
    /\ Get(proposal).proposed_session_length < Get(proposal).current_session_length
    /\ Get(result).msg = RejectedBy("envelope")

----------------------------------------------------------------------------
(* nanoswarm/microspace_guard.rs *)
(*                                                                         *)
(* Densities, power draws and their ceilings are f64 in 1/10000 units     *)
(* (a ceiling of 0.5 is 5000, a limit of 10.0 mW is 100000); volumes are  *)
(* f64 in 1/100 mm3; durations are whole seconds (u64).                    *)

\* f64 +infinity, the quotient of a positive number by 0.0
Inf == 2147483647

\* a / b on f64, in 1/10000 units (a, b >= 0)
FDiv(a, b) ==
    IF IsNaN(a) \/ IsNaN(b) THEN NaN
    ELSE IF b = 0 THEN (IF a = 0 THEN NaN ELSE Inf)
    ELSE IF a = Inf THEN Inf
    ELSE (a * One) \div b

\* x * k / 100 on f64 (x * 100.0 with k = 10000, x * 0.8 with k = 80)
FScale(x, k) ==
    IF IsNaN(x) THEN NaN ELSE IF x = Inf THEN Inf ELSE (x * k) \div 100

\* GuardDecision::PauseAndRest(reason)
PauseAndRest(r) == [kind |-> "PauseAndRest", reason |-> r]

\* a table lookup that gives an unknown key the ceiling 0
GetOr_ZeroForUnknown(table, key, default) == IF key \in DOMAIN table THEN table[key] ELSE 0

\* HashMap::get(key).copied().unwrap_or(default)
GetOr(table, key, default) == IF key \in DOMAIN table THEN table[key] ELSE default

\* MicrospaceIntegrityGuard::new()
MicrospaceIntegrityGuardNew ==
    [ density_ceilings |->
          ( "soil_rhizosphere" :> 5000 @@ "insect_thorax" :> 1000
            @@ "coral_zooxanthella" :> 500 @@ "neural_tissue" :> 100 ),
      activity_power_limits |->
          ( "nutrient_cycling" :> 100000 @@ "flight_metabolic" :> 10000
            @@ "photosynthesis" :> 5000 ),
      occupancy_limits |->
          ( "soil_rhizosphere" :> 3600 @@ "insect_thorax" :> 1800
            @@ "coral_zooxanthella" :> 14400 @@ "neural_tissue" :> 7200 ) ]

\* evaluate_density comparing the volume fraction, not the percentage
evaluate_density_Fraction(self, state) ==
    LET ceiling == GetOr(self.density_ceilings, state.occupant_organism, 1000)
        current_density == FDiv(state.current_swarm_volume_mm3, state.volume_mm3)
    IN  IF FGt(current_density, ceiling)
        THEN Forbid("density exceeds ceiling")
        ELSE IF FGt(current_density, FScale(ceiling, 80))
        THEN DegradePrecision("density approaching ceiling")
        ELSE AllowFull

\* MicrospaceIntegrityGuard::evaluate_density(&self, state)
evaluate_density(self, state) ==
    LET ceiling == GetOr(self.density_ceilings, state.occupant_organism, 1000)
        current_density_pct ==
            FScale(FDiv(state.current_swarm_volume_mm3, state.volume_mm3), One)
    IN  IF FGt(current_density_pct, ceiling)
        THEN Forbid("density exceeds ceiling")
        ELSE IF FGt(current_density_pct, FScale(ceiling, 80))
        THEN DegradePrecision("density approaching ceiling")
        ELSE AllowFull

\* MicrospaceIntegrityGuard::evaluate_activity(&self, state, proposal)
evaluate_activity(self, state, prop) ==
    LET limit == GetOr(self.activity_power_limits, state.ecosystem_role, 10000)
    IN  IF FGt(prop.proposed_energy_draw_mw, limit)
        THEN Forbid("activity draw exceeds limit")
        ELSE IF FGt(prop.proposed_energy_draw_mw, FScale(limit, 70))
        THEN PauseAndRest("Activity power approaching limit; consider reducing duty cycle")
        ELSE AllowFull

\* MicrospaceIntegrityGuard::evaluate_duration(&self, state, proposal);
\* (limit as f64 * 0.8) as u64 truncates
evaluate_duration(self, state, prop) ==
    LET limit == GetOr(self.occupancy_limits, state.occupant_organism, 3600)
    IN  IF prop.proposed_duration_secs > limit
        THEN Forbid("proposed occupancy exceeds limit")
        ELSE IF prop.proposed_duration_secs > (limit * 80) \div 100
        THEN PauseAndRest("Occupancy near limit; consider retreat soon")
        ELSE AllowFull

\* evaluate_swarm_proposal returning each check's soft decision as soon as
\* the check has run
evaluate_swarm_proposal_SoftAtOnce(self, state, prop) ==
    LET density_check == evaluate_density(self, state)
        activity_check == evaluate_activity(self, state, prop)
        duration_check == evaluate_duration(self, state, prop)
    IN  IF density_check.kind # "AllowFull" THEN density_check
        ELSE IF activity_check.kind # "AllowFull" THEN activity_check
        ELSE duration_check

\* MicrospaceIntegrityGuard::evaluate_swarm_proposal(&self, state, proposal)
evaluate_swarm_proposal(self, state, prop) ==
    LET density_check == evaluate_density(self, state)
        activity_check == evaluate_activity(self, state, prop)
        duration_check == evaluate_duration(self, state, prop)
    IN  IF density_check.kind = "Forbid" THEN density_check
        ELSE IF activity_check.kind = "Forbid" THEN activity_check
        ELSE IF duration_check.kind = "Forbid" THEN duration_check
        ELSE IF density_check.kind = "DegradePrecision" THEN density_check
        ELSE IF activity_check.kind = "PauseAndRest" THEN activity_check
        ELSE IF duration_check.kind = "PauseAndRest" THEN duration_check
        ELSE AllowFull

\* occupant organisms: three of the table, one that is not in it
Organisms == {"soil_rhizosphere", "insect_thorax", "neural_tissue", "leaf_stoma"}

\* ecosystem roles: the three of the table, one that is not in it
Roles == {"nutrient_cycling", "flight_metabolic", "photosynthesis", "decomposition"}

\* (volume_mm3, current_swarm_volume_mm3) in 1/100 mm3: 1000 mm3 holding
\* 10, 100, 3, 4.5 and 0.1 mm3 (1%, 10%, 0.3%, 0.45%, 0.01%), 50 mm3 holding
\* 0.05 mm3 (0.1%), and a microspace of no volume, empty and not
Volumes ==
    { <<100000, 1000>>, <<100000, 10000>>, <<100000, 300>>, <<100000, 450>>,
      <<100000, 10>>, <<5000, 5>>, <<0, 0>>, <<0, 5>> }

MicrospaceStates ==
    { [ microspace_id |-> "ms_001",
        occupant_organism |-> o,
        volume_mm3 |-> v[1],
        current_swarm_volume_mm3 |-> v[2],
        ecosystem_role |-> r ] : o \in Organisms, r \in Roles, v \in Volumes }

\* proposed_energy_draw_mw on both sides of 0.7 x and 0.8 x the limits
\* 0.5, 1.0 and 10.0 mW, of the limits themselves, and 5.0 mW
PowerDraws ==
    { 3500, 3501, 4000, 5000, 5001, 7000, 7001, 8000, One, One + 1,
      50000, 70000, 80000, 100000, 100001 }

\* proposed_duration_secs on both sides of 0.8 x the limits 1800 and 3600 s
\* and of the limits themselves
Durations == { 600, 1440, 1441, 1800, 1801, 2880, 2881, 3600, 3601 }

SwarmActivityProposals ==
    [ target_microspace_id : {"ms_001"},
      proposed_energy_draw_mw : PowerDraws,
      proposed_duration_secs : Durations,
      activity_type : {"pollination_assist"} ]

\* a caller calls a function that reads its arguments only and takes the
\* value it returns
Call(name, a, r) ==
    /\ NoCallInFlight
    /\ op' = name
    /\ arg' = Some(a)
    /\ result' = Some(r)
    /\ pc' = "returned"
    /\ UNCHANGED <<engine, version, proposal, snap, guardLog, used>>

\* a caller holding a guard built by new() calls evaluate_density
EvaluateDensity ==
    /\ NoCallInFlight
    /\ \E st \in MicrospaceStates :
          Call("evaluate_density", [state |-> st],
               evaluate_density(MicrospaceIntegrityGuardNew, st))

\* ... evaluate_activity
EvaluateActivity ==
    /\ NoCallInFlight
    /\ \E st \in MicrospaceStates, pr \in SwarmActivityProposals :
          Call("evaluate_activity", [state |-> st, proposal |-> pr],
               evaluate_activity(MicrospaceIntegrityGuardNew, st, pr))

\* ... evaluate_duration
EvaluateDuration ==
    /\ NoCallInFlight
    /\ \E st \in MicrospaceStates, pr \in SwarmActivityProposals :
          Call("evaluate_duration", [state |-> st, proposal |-> pr],
               evaluate_duration(MicrospaceIntegrityGuardNew, st, pr))

\* ... evaluate_swarm_proposal
EvaluateSwarmProposal ==
    /\ NoCallInFlight
    /\ \E st \in MicrospaceStates, pr \in SwarmActivityProposals :
          Call("evaluate_swarm_proposal", [state |-> st, proposal |-> pr],
               evaluate_swarm_proposal(MicrospaceIntegrityGuardNew, st, pr))

MicrospaceNext ==
    \/ EvaluateDensity
    \/ EvaluateActivity
    \/ EvaluateDuration
    \/ EvaluateSwarmProposal
    \/ Finish

MicrospaceSpec == Init /\ [][MicrospaceNext]_vars

\* a call of the function named f has returned
Called(f) == pc = "returned" /\ op = f

----------------------------------------------------------------------------
(* C13 *)

\* C13: evaluate_activity, for a role the table knows with limit L, returns
\* Forbid for every proposed power above L and AllowFull for every proposed
\* power at or below 0.8 x L (flight_metabolic, L = 1.0 mW: Forbid at 5.0 mW,
\* AllowFull at 0.8 mW).
C13_ActivityThresholds ==
    LET limits == MicrospaceIntegrityGuardNew.activity_power_limits IN
    (Called("evaluate_activity") /\ Get(arg).state.ecosystem_role \in DOMAIN limits) =>
       LET L == limits[Get(arg).state.ecosystem_role]
           power == Get(arg).proposal.proposed_energy_draw_mw IN
         /\ power > L => Get(result).kind = "Forbid"
         /\ 100 * power <= 80 * L => Get(result) = AllowFull

\* the part of C13 the code has: Forbid above L, AllowFull at or below 0.7 x L
C13_ActivityAsCoded ==
    LET limits == MicrospaceIntegrityGuardNew.activity_power_limits IN
    (Called("evaluate_activity") /\ Get(arg).state.ecosystem_role \in DOMAIN limits) =>
       LET L == limits[Get(arg).state.ecosystem_role]
           power == Get(arg).proposal.proposed_energy_draw_mw IN
         /\ power > L => Get(result).kind = "Forbid"
         /\ 100 * power <= 70 * L => Get(result) = AllowFull

\* a draw of 5.0 mW was forbidden for flight_metabolic
C13_FiveMilliwatts ==
    /\ Called("evaluate_activity")
    /\ Get(arg).state.ecosystem_role = "flight_metabolic"
    /\ Get(arg).proposal.proposed_energy_draw_mw = 50000
    /\ Get(result).kind = "Forbid"

----------------------------------------------------------------------------
(* C14 *)

\* the decisions of the three checks on the arguments of the call, in the
\* order density, activity power, duration
Checks ==
    LET G == MicrospaceIntegrityGuardNew
        st == Get(arg).state
        pr == Get(arg).proposal IN
      << evaluate_density(G, st), evaluate_activity(G, st, pr), evaluate_duration(G, st, pr) >>

IsSoft(d) == d.kind \in {"DegradePrecision", "PauseAndRest"}

\* the least index of a sequence of decisions at which P(decision) holds
FirstOf(ds, P(_)) ==
    CHOOSE i \in 1..Len(ds) : P(ds[i]) /\ \A j \in 1..(i - 1) : ~P(ds[j])

\* the decision of greatest precedence (Forbid > soft > AllowFull) among ds,
\* the first one in the order of ds among equals
Combined(ds) ==
    IF \E i \in 1..Len(ds) : IsForbid(ds[i]) THEN ds[FirstOf(ds, IsForbid)]
    ELSE IF \E i \in 1..Len(ds) : IsSoft(ds[i]) THEN ds[FirstOf(ds, IsSoft)]
    ELSE AllowFull

\* C14: evaluate_swarm_proposal returns Forbid if and only if one of the
\* density, activity-power and duration checks is Forbid, and then the first
\* forbidding check in that order; otherwise the first soft decision in that
\* order if a check is soft; and AllowFull if and only if all three checks are
\* AllowFull.
C14_SwarmPrecedence ==
    Called("evaluate_swarm_proposal") =>
       /\ Get(result) = Combined(Checks)
       /\ IsForbid(Get(result)) <=> \E i \in 1..3 : IsForbid(Checks[i])
       /\ Get(result) = AllowFull <=> \A i \in 1..3 : Checks[i] = AllowFull

\* the duration check's Forbid was returned though the density check, which
\* ran first, was soft
C14_Witness ==
    /\ Called("evaluate_swarm_proposal")
    /\ Checks[1].kind = "DegradePrecision"
    /\ Checks[2].kind = "PauseAndRest"
    /\ IsForbid(Checks[3])
    /\ Get(result) = Checks[3]

----------------------------------------------------------------------------
(* C15 *)

\* the engine and the microspace guard, in one program
GuardsNext ==
    \/ BoundaryNext
    \/ EvaluateSwarmProposal

GuardsSpec == Init /\ [][GuardsNext]_vars

\* the decisions of the three guards of evaluate_evolution on the proposal
\* of the call, in the order BCI, RoH, envelope
GuardDecisions ==
    LET e == Get(engine)
        pr == Get(proposal) IN
      << BciGuardEvaluate(e.bci_guard, pr.proposed_bci),
         RoHGuardEvaluate(RoHGuardNew(e.roh_ceiling, pr.current_roh), pr.proposed_roh),
         EnvelopeGuardEvaluate(
             EnvelopeGuardNew(pr.current_duty_cycle, pr.current_session_length),
             pr.proposed_duty_cycle, pr.proposed_session_length) >>

\* the orders in which three checks can be evaluated
Orders == { p \in [1..3 -> 1..3] : \A i, j \in 1..3 : p[i] = p[j] => i = j }

\* the result of evaluating the checks in the order p: the first Forbid met
\* ends the evaluation, otherwise the first soft decision met is kept
InOrder(ds, p) == Combined([i \in 1..3 |-> ds[p[i]]])

\* the call of evaluate_evolution was rejected for a guard
RejectedForGuard == Get(result).msg \in { RejectedBy(GuardOrder[i]) : i \in 1..3 }

\* C15: the order in which the checks are evaluated never changes whether a
\* proposal is forbidden: what evaluate_swarm_proposal and evaluate_evolution
\* return is a Forbid (a guard rejection) if and only if evaluating the same
\* checks in any order ends in a Forbid.
C15_OrderIndependent ==
    /\ Called("evaluate_swarm_proposal") =>
          \A p \in Orders : IsForbid(InOrder(Checks, p)) <=> IsForbid(Get(result))
    /\ (Returned /\ ContextValid /\ EvidenceValid) =>
          \A p \in Orders : IsForbid(InOrder(GuardDecisions, p)) <=> RejectedForGuard

\* a swarm proposal that two checks forbid: both orders end in a Forbid, with
\* the reason of the check that came first
C15_Witness ==
    /\ Called("evaluate_swarm_proposal")
    /\ IsForbid(Get(result))
    /\ \E p \in Orders :
          /\ IsForbid(InOrder(Checks, p))
          /\ InOrder(Checks, p).reason # Get(result).reason

\* an evolution proposal that the RoH and envelope guards forbid was rejected
\* for the RoH guard, the first of the two in the order of the code
C15_EngineCase ==
    /\ Returned
    /\ ~IsForbid(GuardDecisions[1])
    /\ IsForbid(GuardDecisions[2])
    /\ IsForbid(GuardDecisions[3])
    /\ Get(result).msg = RejectedBy("roh")

----------------------------------------------------------------------------
(* types/policy.rs: PolicyProfile::validate on its own *)

\* bci_ceiling values: NaN, below 0.0, 0.0, 0.25, 1.0, above 1.0, 1.5, +inf
ValidatedCeilings == {NaN, -1, 0, 2500, One, One + 1, 15000, Inf}

\* profiles with each field well-formed and not
ValidatedProfiles ==
    [ name : {"", "test"},
      authority : {"", "test_auth"},
      bci_ceiling : ValidatedCeilings,
      neurorights_constraints : ConstraintLists,
      minimum_rights : {<<>>, DefaultRights} ]

\* a caller validates a profile it has built
ValidateProfile ==
    /\ NoCallInFlight
    /\ \E p \in ValidatedProfiles : Call("validate", p, PolicyValidate(p))

PolicyNext ==
    \/ ValidateProfile
    \/ \E p \in ValidatedProfiles : New(p)
    \/ Finish

PolicySpec == Init /\ [][PolicyNext]_vars

----------------------------------------------------------------------------
(* C16 *)

\* x lies in [0.0, 1.0]
InUnitInterval(x) == ~IsNaN(x) /\ 0 <= x /\ x <= One

\* C16: PolicyProfile::validate succeeds if and only if the name is not
\* empty, the authority is not empty, bci_ceiling lies in [0.0, 1.0] and the
\* minimum-rights list is not empty.
C16_ValidateExactly ==
    Called("validate") =>
       LET p == Get(arg) IN
         Get(result).ok <=>
            /\ p.name # ""
            /\ p.authority # ""
            /\ InUnitInterval(p.bci_ceiling)
            /\ p.minimum_rights # <<>>

\* the same, a ceiling passing when it is NaN as well
C16_ValidateAsCoded ==
    Called("validate") =>
       LET p == Get(arg) IN
         Get(result).ok <=>
            /\ p.name # ""
            /\ p.authority # ""
            /\ (InUnitInterval(p.bci_ceiling) \/ IsNaN(p.bci_ceiling))
            /\ p.minimum_rights # <<>>

\* a profile whose only defect is a ceiling of 1.5 failed validation
C16_CeilingOnly ==
    /\ Called("validate")
    /\ Get(arg).name # "" /\ Get(arg).authority # "" /\ Get(arg).minimum_rights # <<>>
    /\ Get(arg).bci_ceiling = 15000
    /\ ~Get(result).ok

----------------------------------------------------------------------------
(* C17 *)

\* the profile has a ceiling of 1.5 and an empty minimum-rights floor, and
\* nothing else wrong
TwoDefects(p) ==
    /\ p.name # "" /\ p.authority # ""
    /\ p.bci_ceiling = 15000
    /\ p.minimum_rights = <<>>

\* the message m is part of the error information returned: of the one
\* String of validate's Err, or of the PolicyError new wraps it in
Reported(m) ==
    \/ Called("validate") /\ ~Get(result).ok /\ Get(result).err = m
    \/ Called("new") /\ Get(result).kind = "PolicyError" /\ Get(result).msg = m

\* C17: a profile with a ceiling of 1.5 and an empty minimum-rights floor
\* fails validation with both defects reported, the out-of-range ceiling and
\* the empty floor.
C17_BothDefectsReported ==
    ((Called("validate") \/ Called("new")) /\ TwoDefects(Get(arg))) =>
       /\ Reported("BCI ceiling must be in [0.0, 1.0]")
       /\ Reported("Minimum rights cannot be empty")

\* what the code does: the profile fails with the ceiling message alone
C17_FirstDefectOnly ==
    ((Called("validate") \/ Called("new")) /\ TwoDefects(Get(arg))) =>
       /\ Reported("BCI ceiling must be in [0.0, 1.0]")
       /\ ~Reported("Minimum rights cannot be empty")

\* new refused a profile with the two defects
C17_TwoDefectsRefused ==
    /\ Called("new")
    /\ TwoDefects(Get(arg))
    /\ Get(result).kind = "PolicyError"
    /\ engine = None

----------------------------------------------------------------------------
(* governance-healthcare/src/lib.rs *)

\* is_empty() without trim()
TrimIsEmpty_EmptyOnly(s) == Len(s) = 0

\* str::trim().is_empty() on a string given as its characters
TrimIsEmpty(s) == \A i \in 1..Len(s) : s[i] \in {" ", "\t", "\n"}

\* model_id values: whitespace only, and an identifier
ModelIds == { <<" ", "\t">>, <<"m", "1">> }

\* owner values: the empty string, and a name
Owners == { <<>>, <<"o">> }

ClinicalRiskTier == {"Low", "Medium", "High", "Critical"}

HitlPattern == {"HumanReviewRequired", "HumanOverrideCapable", "AutonomousWithinLimits"}

ConsentProfile ==
    [ requires_individual_consent : BOOLEAN,
      involves_indigenous_or_community_data : BOOLEAN,
      fpic_granted : BOOLEAN ]

\* min_retention_years (u8) on both sides of the 5 and 7 year limits
LoggingProfile ==
    [ min_retention_years : {4, 5, 6, 7},
      tamper_evident_required : BOOLEAN,
      full_decision_trace_required : BOOLEAN ]

DatasetProvenancePolicy ==
    [ require_source_and_license : BOOLEAN,
      require_consent_and_jurisdiction_tags : BOOLEAN,
      require_biosignal_labelling : BOOLEAN ]

\* HealthcareGovernancePolicy, the fields the validator reads
HealthcareGovernancePolicy ==
    [ model_id : ModelIds,
      owner : Owners,
      risk_tier : ClinicalRiskTier,
      hitl_pattern : HitlPattern,
      consent_profile : ConsentProfile,
      logging : LoggingProfile,
      dataset_provenance : DatasetProvenancePolicy,
      uses_biosignals : BOOLEAN,
      touches_indigenous_data : BOOLEAN ]

\* if cond { errors.push(msg) }
PushIf(errors, cond, msg) == IF cond THEN Append(errors, msg) ELSE errors

\* the errors vector of validate_healthcare_policy when it reaches its end
CollectErrors(policy) ==
    LET tier == policy.risk_tier
        \* 1. Basic identifiers.
        e1 == PushIf(<<>>, TrimIsEmpty(policy.model_id), "model_id must not be empty")
        e2 == PushIf(e1, TrimIsEmpty(policy.owner), "owner must not be empty")
        \* 2. HITL constraints by risk tier.
        e3 == CASE tier \in {"High", "Critical"} ->
                     PushIf(e2, policy.hitl_pattern = "AutonomousWithinLimits",
                            "AutonomousWithinLimits is forbidden for High/Critical clinical risk")
                [] tier = "Medium" ->
                     PushIf(e2, policy.hitl_pattern = "AutonomousWithinLimits",
                            "AutonomousWithinLimits is not allowed for Medium clinical risk")
                [] tier = "Low" -> e2
        \* 3. Consent profile vs risk tier.
        e4 == PushIf(e3, /\ tier \in {"Medium", "High", "Critical"}
                         /\ ~policy.consent_profile.requires_individual_consent,
                     "Medium/High/Critical risk deployments must require individual consent/notice")
        \* 4. Indigenous Data Sovereignty / FPIC constraints.
        e5 == PushIf(e4, /\ \/ policy.touches_indigenous_data
                            \/ policy.consent_profile.involves_indigenous_or_community_data
                         /\ ~policy.consent_profile.fpic_granted,
                     "FPIC must be granted before deploying models that touch Indigenous/community data")
        \* 5. Logging constraints by risk tier.
        e6 == CASE tier \in {"High", "Critical"} ->
                     PushIf(
                       PushIf(
                         PushIf(e5, policy.logging.min_retention_years < 7,
                                "High/Critical risk deployments must retain logs for at least 7 years"),
                         ~policy.logging.tamper_evident_required,
                         "High/Critical risk deployments must use tamper-evident log storage"),
                       ~policy.logging.full_decision_trace_required,
                       "High/Critical risk deployments must store full decision traces")
                [] tier = "Medium" ->
                     PushIf(e5, policy.logging.min_retention_years < 5,
                            "Medium risk deployments should retain logs for at least 5 years")
                [] tier = "Low" -> e5
        \* 6. Dataset provenance requirements when biosignals are used.
        e7 == PushIf(e6, /\ policy.uses_biosignals
                         /\ ~policy.dataset_provenance.require_biosignal_labelling,
                     "uses_biosignals=true requires biosignal labelling in dataset provenance")
        \* 7. General dataset provenance invariants.
        e8 == PushIf(e7, ~policy.dataset_provenance.require_source_and_license,
                     "Training datasets must declare source and license")
        e9 == PushIf(e8, ~policy.dataset_provenance.require_consent_and_jurisdiction_tags,
                     "Training datasets must include consent and jurisdiction tags")
    IN  e9

\* validate_healthcare_policy returning at the first violated rule
validate_healthcare_policy_FirstOnly(policy) ==
    LET errors == SubSeq(CollectErrors(policy), 1, 1)
    IN  [ok |-> errors = <<>>, errors |-> errors]

\* validate_healthcare_policy asking ten years of logs of the Critical tier
validate_healthcare_policy_CriticalTenYears(policy) ==
    LET errors == PushIf(CollectErrors(policy),
                         /\ policy.risk_tier = "Critical"
                         /\ policy.logging.min_retention_years < 10,
                         "Critical risk deployments must retain logs for at least 10 years")
    IN  [ok |-> errors = <<>>, errors |-> errors]

\* validate_healthcare_policy(policy) -> PolicyValidationResult
validate_healthcare_policy(policy) ==
    LET errors == CollectErrors(policy)
    IN  [ok |-> errors = <<>>, errors |-> errors]

\* a caller (CI) validates a policy
ValidateHealthcarePolicy ==
    /\ NoCallInFlight
    /\ \E policy \in HealthcareGovernancePolicy :
          Call("validate_healthcare_policy", policy, validate_healthcare_policy(policy))

HealthcareNext ==
    \/ ValidateHealthcarePolicy
    \/ Finish

HealthcareSpec == Init /\ [][HealthcareNext]_vars

----------------------------------------------------------------------------
(* C18 *)

\* the rules of the validator: for a policy, each rule's message and whether
\* the policy violates it
HealthcareRules(p) ==
    LET high == p.risk_tier \in {"High", "Critical"}
        medium == p.risk_tier = "Medium" IN
    { [ msg |-> "model_id must not be empty",
        violated |-> TrimIsEmpty(p.model_id) ],
      [ msg |-> "owner must not be empty",
        violated |-> TrimIsEmpty(p.owner) ],
      [ msg |-> "AutonomousWithinLimits is forbidden for High/Critical clinical risk",
        violated |-> high /\ p.hitl_pattern = "AutonomousWithinLimits" ],
      [ msg |-> "AutonomousWithinLimits is not allowed for Medium clinical risk",
        violated |-> medium /\ p.hitl_pattern = "AutonomousWithinLimits" ],
      [ msg |-> "Medium/High/Critical risk deployments must require individual consent/notice",
        violated |-> (high \/ medium) /\ ~p.consent_profile.requires_individual_consent ],
      [ msg |-> "FPIC must be granted before deploying models that touch Indigenous/community data",
        violated |-> /\ \/ p.touches_indigenous_data
                        \/ p.consent_profile.involves_indigenous_or_community_data
                     /\ ~p.consent_profile.fpic_granted ],
      [ msg |-> "High/Critical risk deployments must retain logs for at least 7 years",
        violated |-> high /\ p.logging.min_retention_years < 7 ],
      [ msg |-> "High/Critical risk deployments must use tamper-evident log storage",
        violated |-> high /\ ~p.logging.tamper_evident_required ],
      [ msg |-> "High/Critical risk deployments must store full decision traces",
        violated |-> high /\ ~p.logging.full_decision_trace_required ],
      [ msg |-> "Medium risk deployments should retain logs for at least 5 years",
        violated |-> medium /\ p.logging.min_retention_years < 5 ],
      [ msg |-> "uses_biosignals=true requires biosignal labelling in dataset provenance",
        violated |-> p.uses_biosignals /\ ~p.dataset_provenance.require_biosignal_labelling ],
      [ msg |-> "Training datasets must declare source and license",
        violated |-> ~p.dataset_provenance.require_source_and_license ],
      [ msg |-> "Training datasets must include consent and jurisdiction tags",
        violated |-> ~p.dataset_provenance.require_consent_and_jurisdiction_tags ] }

\* how many entries of errors are the message m
Occurrences(errors, m) == Cardinality({ i \in 1..Len(errors) : errors[i] = m })

\* C18: the errors list validate_healthcare_policy returns holds exactly one
\* entry for each rule the policy violates and none for the others (k
\* violated rules give k errors), and ok is true if and only if the list is
\* empty.
C18_AllViolationsCollected ==
    Called("validate_healthcare_policy") =>
       LET rules == HealthcareRules(Get(arg))
           errors == Get(result).errors IN
         /\ \A r \in rules : Occurrences(errors, r.msg) = IF r.violated THEN 1 ELSE 0
         /\ Len(errors) = Cardinality({ r \in rules : r.violated })
         /\ Get(result).ok <=> errors = <<>>

\* a High-tier policy violating eleven rules got eleven errors
C18_Witness ==
    /\ Called("validate_healthcare_policy")
    /\ Get(arg).risk_tier = "High"
    /\ Cardinality({ r \in HealthcareRules(Get(arg)) : r.violated }) = 11
    /\ Len(Get(result).errors) = 11
    /\ ~Get(result).ok

----------------------------------------------------------------------------
(* C19 *)

\* the state of test_soil_rhizosphere_density: soil_rhizosphere, 10 mm3 of
\* swarm in 1000 mm3
SoilAtOnePercent(st) ==
    /\ st.occupant_organism = "soil_rhizosphere"
    /\ st.volume_mm3 = 100000
    /\ st.current_swarm_volume_mm3 = 1000

\* C19: evaluate_density returns AllowFull for a soil_rhizosphere microspace
\* whose swarm volume is 1% of its volume, against the configured ceiling 0.5.
C19_OnePercentAllowed ==
    (Called("evaluate_density") /\ SoilAtOnePercent(Get(arg).state)) =>
       Get(result) = AllowFull

\* what the code does: the density, as a percentage (1.0), exceeds the
\* ceiling 0.5 and the state is forbidden
C19_OnePercentForbidden ==
    (Called("evaluate_density") /\ SoilAtOnePercent(Get(arg).state)) =>
       IsForbid(Get(result))

\* evaluate_density was called on the state of the test
C19_TestState ==
    /\ Called("evaluate_density")
    /\ SoilAtOnePercent(Get(arg).state)
    /\ Get(arg).state.ecosystem_role = "nutrient_cycling"

----------------------------------------------------------------------------
(* C20 *)

\* the call is the one of test_evolution_proposal_evaluation: an engine built
\* from PolicyProfile::new (ceiling 0.25, no constraint) and never given
\* another profile, evaluating the proposal of the test
TestCall(pr) ==
    /\ Returned
    /\ Get(snap).version = 0
    /\ Get(snap).profile.bci_ceiling = 2500
    /\ Get(snap).profile.neurorights_constraints = <<>>
    /\ Get(proposal) = pr

\* C20: under the default profile, evaluate_evolution approves the proposal
\* of the test, whose evidence bundle is as EvidenceBundle::new built it, with
\* no tag added.
C20_TestProposalApproved ==
    TestCall(TestProposal) =>
       /\ Get(result).kind = "Ok"
       /\ Get(result).outcome = Some("Allowed")

\* what the code does: the proposal is rejected for its evidence bundle before
\* any guard runs, and approved once the bundle has a tag
C20_TestProposalRejected ==
    /\ TestCall(TestProposal) =>
          /\ Get(result).kind = "EvidenceInvalid"
          /\ Get(result).msg = "Evidence bundle must contain at least one tag"
          /\ guardLog = <<>>
    /\ TestCall([TestProposal EXCEPT !.evidence_bundle = AddTag(TestEvidence)]) =>
          /\ Get(result).kind = "Ok"
          /\ Get(result).outcome = Some("Allowed")

\* the proposal of the test, its bundle given one tag, was approved
C20_WithOneTag ==
    /\ TestCall([TestProposal EXCEPT !.evidence_bundle = AddTag(TestEvidence)])
    /\ Get(result).kind = "Ok"

----------------------------------------------------------------------------
(* neurorights-shell/src/lib.rs: NeurorightsShell *)

EnvironmentPlane ==
    {"SoftwareOnly", "BciHciEeg", "CyberneticHardware", "OrganicHost",
     "ExternalEnvironment"}

\* outer requests: eco_delta and physical_risk are f32 (NaN included)
OuterActionRequest ==
    [ plane : EnvironmentPlane,
      eco_delta : {NaN, -5000, 0, 5000},
      physical_risk : {0, 5000, One},
      policy_label : {"traffic-signal-update", "hvac-adjust"} ]

\* Option<f32> index values: None, 0.0, 0.5, 1.0, NaN
HintValues == {None, Some(0), Some(5000), Some(One), Some(NaN)}

InnerDomainHint == [stress : HintValues, cognitive_load : HintValues]

\* Option<&InnerDomainHint>
InnerHints == {None} \cup {Some(h) : h \in InnerDomainHint}

NeurorightsPolicy ==
    [ allow_neural_export : BOOLEAN,
      allow_inner_for_safety_only : BOOLEAN,
      essential_service : BOOLEAN ]

NeurorightsPolicyDefault ==
    [ allow_neural_export |-> FALSE,
      allow_inner_for_safety_only |-> TRUE,
      essential_service |-> FALSE ]

NeurorightsShellNew(policy) == [policy |-> policy]

\* authorize_outer_action that refuses an outer action of a stressed host
authorize_outer_action_StressGate(self, inner, outer) ==
    IF /\ IsSome(inner)
       /\ IsSome(Get(inner).stress)
       /\ FGt(Get(Get(inner).stress), 5000)
    THEN Err("InnerDomainGatingForbidden")
    ELSE Ok

\* NeurorightsShell::authorize_outer_action
authorize_outer_action(self, inner, outer) == Ok

\* check_neural_export that looks at the policy only
check_neural_export_PolicyOnly(self, attempting_export, is_reidentifiable) ==
    IF attempting_export /\ ~self.policy.allow_neural_export
    THEN Err("NeuralExportForbidden")
    ELSE Ok

\* NeurorightsShell::check_neural_export
check_neural_export(self, attempting_export, is_reidentifiable) ==
    IF attempting_export /\ (~self.policy.allow_neural_export \/ is_reidentifiable)
    THEN Err("NeuralExportForbidden")
    ELSE Ok

\* NeurorightsShell::check_augmentation_condition
check_augmentation_condition(self, requires_augmentation) ==
    IF self.policy.essential_service /\ requires_augmentation
    THEN Err("CoerciveUptake")
    ELSE Ok

\* a caller builds the shell: NeurorightsShell::new(policy)
ShellNew ==
    /\ engine = None
    /\ NoCallInFlight
    /\ \E policy \in NeurorightsPolicy :
          /\ engine' = Some(NeurorightsShellNew(policy))
          /\ op' = "new"
          /\ arg' = Some(policy)
          /\ result' = None
          /\ pc' = "returned"
          /\ UNCHANGED <<version, proposal, snap, guardLog, used>>

\* a caller holding the shell calls authorize_outer_action
AuthorizeOuterAction ==
    /\ engine # None
    /\ NoCallInFlight
    /\ \E inner \in InnerHints, outer \in OuterActionRequest :
          Call("authorize_outer_action", [inner |-> inner, outer |-> outer],
               authorize_outer_action(Get(engine), inner, outer))

\* ... check_neural_export
CheckNeuralExport ==
    /\ engine # None
    /\ NoCallInFlight
    /\ \E attempting_export \in BOOLEAN, is_reidentifiable \in BOOLEAN :
          Call("check_neural_export",
               [attempting_export |-> attempting_export,
                is_reidentifiable |-> is_reidentifiable],
               check_neural_export(Get(engine), attempting_export, is_reidentifiable))

\* ... check_augmentation_condition
CheckAugmentationCondition ==
    /\ engine # None
    /\ NoCallInFlight
    /\ \E requires_augmentation \in BOOLEAN :
          Call("check_augmentation_condition",
               [requires_augmentation |-> requires_augmentation],
               check_augmentation_condition(Get(engine), requires_augmentation))

NeurorightsNext ==
    \/ ShellNew
    \/ AuthorizeOuterAction
    \/ CheckNeuralExport
    \/ CheckAugmentationCondition
    \/ Finish

NeurorightsSpec == Init /\ [][NeurorightsNext]_vars

----------------------------------------------------------------------------
(* C21 *)

\* the request of the returned authorize_outer_action call carries a hint
\* with both indices present and the stress index at 1.0
HintGiven ==
    /\ Called("authorize_outer_action")
    /\ IsSome(Get(arg).inner)
    /\ Get(Get(arg).inner).stress = Some(One)
    /\ IsSome(Get(Get(arg).inner).cognitive_load)

\* C21: authorize_outer_action does not depend on the inner-domain hint: for
\* the shell's policy and the outer request of a returned call, the call with
\* any other hint (absent, or any stress and cognitive-load values) returns
\* the value this call returned.
C21_InnerHintIgnored ==
    Called("authorize_outer_action") =>
        \A inner \in InnerHints :
            authorize_outer_action(Get(engine), inner, Get(arg).outer) = Get(result)

\* a call with a full hint, stress 1.0, under a policy that is not the default
C21_Witness ==
    /\ HintGiven
    /\ Get(engine).policy # NeurorightsPolicyDefault
    /\ Get(result) = Ok

----------------------------------------------------------------------------
(* C30 *)

\* C30: check_neural_export returns NeuralExportForbidden exactly when an
\* export is attempted and the policy disallows neural export or the data is
\* re-identifiable, and Ok(()) otherwise; so re-identifiable data is never
\* cleared for an attempted export, and a call that attempts none succeeds.
C30_NeuralExport ==
    Called("check_neural_export") =>
        LET a == Get(arg)
            policy == Get(engine).policy
            forbidden == /\ a.attempting_export
                         /\ \/ ~policy.allow_neural_export
                            \/ a.is_reidentifiable
        IN  /\ Get(result) = Err("NeuralExportForbidden") <=> forbidden
            /\ Get(result) = Ok <=> ~forbidden
            /\ a.attempting_export /\ a.is_reidentifiable => ~Get(result).ok
            /\ ~a.attempting_export => Get(result) = Ok

\* an export of re-identifiable data is refused under a policy that allows
\* neural export
C30_Witness ==
    /\ Called("check_neural_export")
    /\ Get(engine).policy.allow_neural_export
    /\ Get(arg).attempting_export
    /\ Get(arg).is_reidentifiable
    /\ Get(result) = Err("NeuralExportForbidden")

\* an export of data that is not re-identifiable is cleared under the same policy
C30_Cleared ==
    /\ Called("check_neural_export")
    /\ Get(engine).policy.allow_neural_export
    /\ Get(arg).attempting_export
    /\ ~Get(arg).is_reidentifiable
    /\ Get(result) = Ok

----------------------------------------------------------------------------
(* C22 *)

\* the call ran the constraint check (Step 6) and no constraint was prohibitive
ConstraintsPassed ==
    /\ IsSome(used.constraints)
    /\ FirstProhibitive(Get(used.constraints)) = 0

\* the last return of evaluate_evolution: the self-check of the record failed
SelfCheckFailed ==
    /\ Get(result).kind = "MonotonicityViolation"
    /\ Get(result).msg = "Audit record violates monotonicity constraint"

C22_NumberCeilings ==
    (Returned /\ ~IsNaN(Get(engine).bci_guard.ceiling)) =>
        /\ ~SelfCheckFailed
        /\ (ContextValid /\ EvidenceValid /\ AllGuardsPassed /\ ConstraintsPassed) =>
              /\ Get(result).kind = "Ok"
              /\ RespectsMonotonicity(Get(Get(result).record),
                                      Get(engine).bci_guard.ceiling,
                                      Get(engine).roh_ceiling)

\* a proposal at the ceiling of both metrics passes the guards and the self-check
C22_AtBothCeilings ==
    /\ Returned
    /\ AllGuardsPassed /\ ConstraintsPassed
    /\ Get(proposal).proposed_bci = Get(engine).bci_guard.ceiling
    /\ Get(result).kind = "Ok"

----------------------------------------------------------------------------
(* The engine's lifecycle: profiles accepted and refused *)

\* profiles PolicyProfile::validate refuses: no name, a ceiling below 0.0 or
\* above 1.0, no minimum rights
RefusedProfiles ==
    { p \in [ name : {"", "test"},
              authority : {"test"},
              bci_ceiling : {-1, 2500, One + 1},
              neurorights_constraints : {<<>>},
              minimum_rights : {<<>>, DefaultRights} ] : ~PolicyValidate(p).ok }

LifecycleNext ==
    \/ BoundaryNext
    \/ \E p \in RefusedProfiles : New(p)
    \/ \E p \in RefusedProfiles : SetPolicyProfile(p)

LifecycleSpec == Init /\ [][LifecycleNext]_vars

----------------------------------------------------------------------------
(* C23 *)

\* the BCI guard of engine e is the one derived from its active profile, and
\* e decides as the engine new builds from that profile
GuardMatchesProfile(e) ==
    LET p == e.policy_profile IN
      /\ PolicyValidate(p).ok
      /\ e.bci_guard.ceiling = p.bci_ceiling
      /\ e.bci_guard.warn_threshold = Mul085(p.bci_ceiling)
      /\ e.roh_ceiling = EngineOf(p).roh_ceiling
      /\ e.envelope_guard_enabled = EngineOf(p).envelope_guard_enabled
      /\ \A x \in BoundaryBci :
            BciGuardEvaluate(e.bci_guard, x) = BciGuardEvaluate(EngineOf(p).bci_guard, x)

\* C23: after any sequence of new and successful or failed set_policy_profile
\* calls the active profile passes validate and the BCI guard matches it
\* (ceiling = the profile's bci_ceiling, warning threshold = 0.85 x ceiling),
\* so the engine decides as the engine new builds from the active profile.
C23_GuardMatchesProfile ==
    IsSome(engine) => GuardMatchesProfile(Get(engine))

\* the same for the engines whose ceiling is a number
C23_NumberCeilings ==
    (IsSome(engine) /\ ~IsNaN(Get(engine).policy_profile.bci_ceiling)) =>
        GuardMatchesProfile(Get(engine))

\* a refused set_policy_profile has returned and the engine still matches
\* the profile installed by an earlier successful one
C23_AfterRefusedSet ==
    /\ pc = "returned" /\ op = "set_policy_profile"
    /\ Get(result).kind = "PolicyError"
    /\ version = 1
    /\ GuardMatchesProfile(Get(engine))

----------------------------------------------------------------------------
(* C24 *)

\* the ceiling / limit a state's category is checked against
DensityCeilingOf(st) ==
    LET t == MicrospaceIntegrityGuardNew.density_ceilings IN
    IF st.occupant_organism \in DOMAIN t THEN t[st.occupant_organism] ELSE 1000

OccupancyLimitOf(st) ==
    LET t == MicrospaceIntegrityGuardNew.occupancy_limits IN
    IF st.occupant_organism \in DOMAIN t THEN t[st.occupant_organism] ELSE 3600

\* the density value of a state: swarm volume / volume, as a percentage
DensityPct(st) == FScale(FDiv(st.current_swarm_volume_mm3, st.volume_mm3), One)

\* the f64 value v exceeds k/100 of the number c
ExceedsShare(v, k, c) == ~IsNaN(v) /\ (v = Inf \/ 100 * v > k * c)

\* the decision of a check with soft threshold 0.8: value v against ceiling c
ThresholdDecision(v, c, soft) ==
    IF ExceedsShare(v, 100, c) THEN "Forbid"
    ELSE IF ExceedsShare(v, 80, c) THEN soft
    ELSE "AllowFull"

\* the state of test_density_exceeded: soil_rhizosphere, 100 mm3 of swarm in
\* 1000 mm3
SoilAtTenPercent(st) ==
    /\ st.occupant_organism = "soil_rhizosphere"
    /\ st.volume_mm3 = 100000
    /\ st.current_swarm_volume_mm3 = 10000

C24_DurationSoft ==
    /\ Called("evaluate_duration")
    /\ Get(arg).state.occupant_organism = "insect_thorax"
    /\ Get(arg).proposal.proposed_duration_secs = 1441
    /\ Get(result).kind = "PauseAndRest"

\* the state of test_density_exceeded was forbidden
C24_TenPercent ==
    /\ Called("evaluate_density")
    /\ SoilAtTenPercent(Get(arg).state)
    /\ IsForbid(Get(result))

----------------------------------------------------------------------------
(* C25 *)

\* the category the call looks up is not in the guard's table
UnknownOrganism(st) ==
    st.occupant_organism \notin DOMAIN MicrospaceIntegrityGuardNew.density_ceilings
                                \cup DOMAIN MicrospaceIntegrityGuardNew.occupancy_limits

UnknownRole(st) ==
    st.ecosystem_role \notin DOMAIN MicrospaceIntegrityGuardNew.activity_power_limits

\* C25: a category that is not in the table is checked against the default
\* (density ceiling 0.1, occupancy limit 3600 s, power limit 1.0 mW) and
\* otherwise as a category of the table: the check returns the kind of
\* decision it returns for the same values under a table category with that
\* ceiling (insect_thorax 0.1, soil_rhizosphere 3600 s, flight_metabolic
\* 1.0 mW), and Forbid exactly when the value exceeds the default.
C25_UnknownCategoryDefaults ==
    LET G == MicrospaceIntegrityGuardNew IN
    /\ (Called("evaluate_density") /\ UnknownOrganism(Get(arg).state)) =>
          LET st == Get(arg).state IN
            /\ Get(result).kind =
                 evaluate_density(G, [st EXCEPT !.occupant_organism = "insect_thorax"]).kind
            /\ IsForbid(Get(result)) <=> ExceedsShare(DensityPct(st), 100, 1000)
    /\ (Called("evaluate_duration") /\ UnknownOrganism(Get(arg).state)) =>
          LET st == Get(arg).state
              pr == Get(arg).proposal IN
            /\ Get(result).kind =
                 evaluate_duration(G, [st EXCEPT !.occupant_organism = "soil_rhizosphere"], pr).kind
            /\ IsForbid(Get(result)) <=> pr.proposed_duration_secs > 3600
    /\ (Called("evaluate_activity") /\ UnknownRole(Get(arg).state)) =>
          LET st == Get(arg).state
              pr == Get(arg).proposal IN
            /\ Get(result).kind =
                 evaluate_activity(G, [st EXCEPT !.ecosystem_role = "flight_metabolic"], pr).kind
            /\ IsForbid(Get(result)) <=> pr.proposed_energy_draw_mw > One

\* an unknown organism at 0.1% density is degraded: neither refused nor
\* allowed in full because it is unknown
C25_Witness ==
    /\ Called("evaluate_density")
    /\ UnknownOrganism(Get(arg).state)
    /\ DensityPct(Get(arg).state) = 1000
    /\ Get(result).kind = "DegradePrecision"

\* an unknown organism is allowed 2880 s in full and refused 3601 s
C25_UnknownAllowed ==
    /\ Called("evaluate_duration")
    /\ UnknownOrganism(Get(arg).state)
    /\ Get(arg).proposal.proposed_duration_secs = 2880
    /\ Get(result) = AllowFull

C25_UnknownRoleForbidden ==
    /\ Called("evaluate_activity")
    /\ UnknownRole(Get(arg).state)
    /\ Get(arg).proposal.proposed_energy_draw_mw = One + 1
    /\ IsForbid(Get(result))

----------------------------------------------------------------------------
(* types/evidence.rs: a bundle built by new and add_tag, validated, and     *)
(* handed to the engine in a proposal.  While it is being built the bundle  *)
(* is the caller's value, held in arg; evaluate_evolution receives it in    *)
(* the proposal.                                                            *)

\* the profile of the engine the bundles are handed to
EvidenceProfile ==
    [ name |-> "test", authority |-> "test", bci_ceiling |-> 2500,
      neurorights_constraints |-> <<>>, minimum_rights |-> DefaultRights ]

\* (knowledge_factor, uncertainty) given to new: in range, out of range on
\* both sides, NaN
GivenFactors == { <<9000, 1000>>, <<15000, -1>>, <<NaN, 1000>> }

\* the caller holds a bundle it is building
HoldsBundle == NoCallInFlight /\ IsSome(arg)

\* EvidenceBundle::new(id, knowledge_factor, uncertainty)
BundleNew ==
    /\ NoCallInFlight
    /\ arg = None
    /\ \E id \in EvidenceIds, f \in GivenFactors :
          arg' = Some(EvidenceBundleNew(id, f[1], f[2]))
    /\ op' = "EvidenceBundle::new"
    /\ UNCHANGED <<engine, version, pc, proposal, snap, guardLog, used, result>>

\* bundle.add_tag(tag)
BundleAddTag ==
    /\ HoldsBundle
    /\ Get(arg).tags < MaxAddTag
    /\ arg' = Some(AddTag(Get(arg)))
    /\ op' = "add_tag"
    /\ UNCHANGED <<engine, version, pc, proposal, snap, guardLog, used, result>>

\* bundle.validate()
BundleValidate ==
    /\ HoldsBundle
    /\ Call("EvidenceBundle::validate", Get(arg), EvidenceValidate(Get(arg)))

\* the proposals that carry bundle b: a valid context or not, a proposed
\* BCI* under the ceiling or above it
ProposalsCarrying(b) ==
    [ did : {"did:x:1"},
      corridor_context : CorridorContexts,
      evidence_bundle : {b},
      current_bci : {1000},
      proposed_bci : {1500, 3000},
      current_roh : {1000},
      proposed_roh : {1200},
      current_duty_cycle : {4000},
      proposed_duty_cycle : {3500},
      current_session_length : {90},
      proposed_session_length : {75} ]

\* the caller moves the bundle into a proposal and calls evaluate_evolution
EvaluateBundle ==
    /\ HoldsBundle
    /\ \E pr \in ProposalsCarrying(Get(arg)) : Start(pr)

EvidenceNext ==
    \/ New(EvidenceProfile)
    \/ BundleNew
    \/ BundleAddTag
    \/ BundleValidate
    \/ EvaluateBundle
    \/ ValidateCorridor
    \/ ValidateEvidence
    \/ EvalBci
    \/ EvalRoh
    \/ EvalEnvelope
    \/ CheckConstraints
    \/ CreateAudit
    \/ CallerSetOutcome
    \/ CallerSeal
    \/ Finish

EvidenceSpec == Init /\ [][EvidenceNext]_vars

----------------------------------------------------------------------------
(* C26 *)

\* a bundle made by new with a non-empty id passes validate exactly with 1
\* to 20 tags added
TagsDecide(b, v) == b.id # "" => (v.ok <=> (1 <= b.tags /\ b.tags <= 20))

\* the bundle of the returned evaluate_evolution call fails validate
CarriesFailingBundle ==
    /\ Returned
    /\ LET b == Get(proposal).evidence_bundle IN
         b.id = "" \/ b.tags = 0 \/ b.tags > 20

\* C26 as stated: a bundle made by new with a non-empty id and n add_tag
\* calls passes validate iff 1 <= n <= 20, and every proposal carrying a bundle
\* that fails validate is rejected by evaluate_evolution with EvidenceInvalid.
C26_AsStated ==
    /\ Called("EvidenceBundle::validate") => TagsDecide(Get(arg), Get(result))
    /\ CarriesFailingBundle => Get(result).kind = "EvidenceInvalid"

\* C26, amended: ... and every proposal with a valid corridor context carrying
\* a bundle that fails validate is rejected with EvidenceInvalid, with no
\* guard run and no record returned.
C26_TagCountDecides ==
    /\ Called("EvidenceBundle::validate") => TagsDecide(Get(arg), Get(result))
    /\ (CarriesFailingBundle /\ ContextValid) =>
          /\ Get(result).kind = "EvidenceInvalid"
          /\ guardLog = <<>>
          /\ NoRecordReturned

\* add_tag pushed a twenty-first tag and validate refused the bundle, whose
\* factors new had clamped
C26_Witness ==
    /\ Called("EvidenceBundle::validate")
    /\ Get(arg).id # ""
    /\ Get(arg).tags = 21
    /\ Get(arg).knowledge_factor = One /\ Get(arg).uncertainty = 0
    /\ Get(result) = Err("Evidence bundle cannot exceed 20 tags")

\* validate accepted the bundle with 20 tags
C26_TwentyTags ==
    /\ Called("EvidenceBundle::validate")
    /\ Get(arg).tags = 20
    /\ Get(result) = Ok

\* a proposal with a valid context carrying the bundle with 21 tags was
\* rejected with EvidenceInvalid
C26_Rejected ==
    /\ CarriesFailingBundle /\ ContextValid
    /\ Get(proposal).evidence_bundle.tags = 21
    /\ Get(result).kind = "EvidenceInvalid"

----------------------------------------------------------------------------
(* C27 *)

\* a string of no character other than white space
Blank(s) == { i \in 1..Len(s) : s[i] \notin {" ", "\t", "\n"} } = {}

\* the conditions under which a healthcare policy passes
HealthcarePolicyPasses(p) ==
    LET low == p.risk_tier = "Low"
        highOrCritical == p.risk_tier \in {"High", "Critical"}
        logging == p.logging IN
      /\ ~Blank(p.model_id)
      /\ ~Blank(p.owner)
      /\ p.hitl_pattern = "AutonomousWithinLimits" => low
      /\ p.consent_profile.requires_individual_consent \/ low
      /\ highOrCritical => /\ logging.min_retention_years >= 7
                           /\ logging.tamper_evident_required
                           /\ logging.full_decision_trace_required
      /\ p.risk_tier = "Medium" => logging.min_retention_years >= 5
      /\ (p.touches_indigenous_data
            \/ p.consent_profile.involves_indigenous_or_community_data) =>
               p.consent_profile.fpic_granted
      /\ p.uses_biosignals => p.dataset_provenance.require_biosignal_labelling
      /\ p.dataset_provenance.require_source_and_license
      /\ p.dataset_provenance.require_consent_and_jurisdiction_tags

C27_BlankModelId ==
    /\ Called("validate_healthcare_policy")
    /\ Blank(Get(arg).model_id) /\ Len(Get(arg).model_id) > 0
    /\ Get(result).errors = <<"model_id must not be empty">>

----------------------------------------------------------------------------
(* C29 *)

\* the result for the policy of the call with its risk tier replaced by t
AtTier(t) == validate_healthcare_policy([Get(arg) EXCEPT !.risk_tier = t])

\* C29: the validator is monotone in the risk tier: for policies that differ
\* in risk_tier only, one that passes at High passes at Medium and at Low, one
\* that passes at Medium passes at Low, a lower tier never reports more
\* errors than a higher one, and Critical and High give the same result.
C29_MonotoneInTier ==
    Called("validate_healthcare_policy") =>
        LET tier == Get(arg).risk_tier
            r == Get(result) IN
          /\ (tier = "High" /\ r.ok) => (AtTier("Medium").ok /\ AtTier("Low").ok)
          /\ (tier = "Medium" /\ r.ok) => AtTier("Low").ok
          /\ tier = "High" => Len(AtTier("Medium").errors) <= Len(r.errors)
          /\ tier = "Medium" => Len(AtTier("Low").errors) <= Len(r.errors)
          /\ tier = "Critical" => r = AtTier("High")
          /\ tier = "High" => r = AtTier("Critical")

\* a policy that passes at Low fails at Medium and at High
C29_Witness ==
    /\ Called("validate_healthcare_policy")
    /\ Get(arg).risk_tier = "Low"
    /\ Get(result).ok
    /\ ~AtTier("Medium").ok
    /\ Len(AtTier("High").errors) > Len(AtTier("Medium").errors)

\* a policy passed at High
C29_PassesAtHigh ==
    /\ Called("validate_healthcare_policy")
    /\ Get(arg).risk_tier = "High"
    /\ Get(result).ok

----------------------------------------------------------------------------
(* C28 *)

\* C28: the RoH ceiling does not depend on the policy profile: after new and
\* any sequence of set_policy_profile calls roh_ceiling is 0.3 and
\* envelope_guard_enabled is true, and no call with proposed_roh above 0.3
\* returns an outcome or a record, whatever profile is active.
C28_RohCeilingFixed ==
    /\ IsSome(engine) =>
          /\ Get(engine).roh_ceiling = 3000
          /\ Get(engine).envelope_guard_enabled
    /\ (Returned /\ Get(proposal).proposed_roh > 3000) =>
          /\ Get(result).kind # "Ok"
          /\ NoRecordReturned

\* after a replacement by a profile whose BCI ceiling is 1.0, a proposal
\* that passed the BCI guard was refused by the RoH guard at 0.35
C28_Witness ==
    /\ Returned
    /\ version >= 1
    /\ Get(engine).policy_profile.bci_ceiling = One
    /\ Get(proposal).proposed_roh = 3500
    /\ Len(guardLog) = 2
    /\ ~IsForbid(guardLog[1].decision)
    /\ Get(result).kind = "MonotonicityViolation"
    /\ Get(result).msg = RejectedBy("roh")

=============================================================================
